---- MODULE Spec2Model ----
(***************************************************************************)
(* Model of the grackle-zero sandboxed launch pipeline (Linux back end):   *)
(* sandbox_child, launch_child, the forked child's pre-exec path, the      *)
(* dependency resolver and the child supervisor (LinuxChildState).         *)
(***************************************************************************)
EXTENDS Integers, Sequences, FiniteSets, TLC

\* ---------------------------------------------------------------- bounds
\* Logical descriptors of an FdSet are 0..MaxFd.
MaxFd == 1
\* Library names known to the dependency analyzer are 1..MaxLibs.
MaxLibs == 1
\* Number of Child calls one handler run makes before it returns.
MaxCalls == 3
\* UTF-16 code units of a command and its arguments, taken together.
MaxLen == 3
\* Arguments that follow the command.
MaxArgs == 1
\* Entries of an environment.
MaxEnv == 2
\* Clones of the ProcessState of a Windows child.
MaxClones == 1
\* Threads that call terminate() and exit_status() at the same time.
MaxThreads == 2

\* ------------------------------------------------------------- constants
\* Option<i32>::None of the cached exit code.
NoCode == -1
\* Exit status of the child when dup2 or chdir fails.
ExitSetup == 253
\* Exit status of the child when execve returns.
ExitExec == 254
\* Exit status of the child when restrict_self fails.
ExitJail == 255
\* Exit status of a child program that ran to completion.
ExitClean == 0
\* Windows: the exit code terminate asks for, and the code of a process at work.
TERMINATE_EXIT_CODE == 255
STILL_ACTIVE == 259
\* Exit codes of a Windows program that ends by itself.
WinExitCodes == {ExitClean, STILL_ACTIVE}
\* Exit status of a Rust child program that panicked.
ExitPanic == 101

Fds == 0..MaxFd
Names == 1..MaxLibs
FdMode == {"Null", "ToChild", "FromChild", "KeepInChild"}
StreamDirection == {"ToChild", "FromChild"}
UserExitCodes == {ExitClean, ExitPanic}

\* Option<PathBuf>::None of Dependency.realpath.
NoPath == <<>>

SeqsUpTo(S, n) == UNION {[1..k -> S] : k \in 0..n}
Range(s) == {s[i] : i \in DOMAIN s}

VARIABLES
    env,            \* the LaunchEnv handed to sandbox_child and what the host holds for it
    pc,             \* position of sandbox_child in the parent
    result,         \* value returned by sandbox_child
    handlerRet,     \* what handler.handle returned
    forked,         \* fork() created a child process
    handlerInvoked, \* handler.handle was called
    allowList,      \* read allow-list held by the armed LandlockJail
    childPc,        \* position of the forked child before exec
    dirChanged,     \* child: chdir done
    confined,       \* child: restrict_self committed
    swept,          \* child: close_open_fds ran
    proc,           \* OS view of the child process
    sigPending,     \* a SIGKILL is queued for the child
    killed,         \* LinuxChildState.killed
    exit_code,      \* LinuxChildState.exit_code
    fds,            \* LinuxChild.fds: logical fd -> direction of the parent stream
    calls,          \* number of Child calls the handler made
    taken,          \* per logical fd: what the take_stream_* calls returned so far
    termRets,       \* results of the handler's terminate() calls, in order
    killsSent,      \* number of SIGKILLs delivered by kill(2)
    esLast,         \* the last exit_status() call: its result and what it saw
    parentFds,      \* descriptor table of the host process
    childFds,       \* descriptor table of the forked child while it lives
    kernel,         \* Landlock ABI of the running kernel (0: no Landlock)
    ruleset,        \* the ruleset LandlockJail::new created
    opened,         \* the last open() of the executed program and its outcome
    accepted,       \* connections the host's TCP server accepted
    hPc,            \* position of TestHandler::handle
    runRet,         \* what TestHandler::run_process returned
    state,          \* InnerExecutionState of the test handler
    progPc,         \* position of the noop test program
    pipes,          \* bytes in flight in the pipes of logical descriptors 0 and 1
    cmd,            \* quote_arguments: the command, a sequence of UTF-16 code units
    args,           \* quote_arguments: the arguments
    cmdline,        \* what quote_arguments returned
    argv,           \* the arguments the started program parses out of its command line
    qPc,            \* position of the command line: start, quoted, failed, parsed
    environ,        \* the environment of the launch: a map from key to value
    pairs,          \* encode_env_strings: the slice of key/value pairs it is given
    block,          \* what encode_env_strings returned
    decoded,        \* the key/value pairs the started program reads out of its block
    ePc,            \* position of the environment: start, launched, encoded, failed, read
    wenv,           \* Windows: the LaunchEnv handed to launch_child and what the host holds
    wPc,            \* Windows: position of the launch: start, failed, launched, dropped
    wRet,           \* Windows: what launch_child returned
    created,        \* Windows: number of processes CreateProcessAsUserW created
    wchild,         \* WindowsChild: stdin, stdout, stderr and others
    mutable,        \* MutableProcessState shared by the ProcessState and its clones
    owners,         \* the ProcessState values: 0 lives in the WindowsChild, the rest are clones
    handles,        \* the process, thread and job handles of the child as the OS sees them
    wproc,          \* OS view of the Windows child process
    wlast,          \* Windows: the last call on the child and what it returned
    wsteps,         \* Windows: the child as the OS saw it after each call of launch_restricted
    thr,            \* the threads that call into the LinuxChildState and its clones
    locks,          \* holder of the killed mutex and of the exit_code mutex (0: free)
    esRets,         \* what the exit_code() calls of the threads returned, in order
    lateKills,      \* kill(2) calls issued for the pid after the child was reaped
    packet,         \* the EventPacket handed to EventWriter::write
    writer,         \* out: the writer handed to EventWriter::write
    evRet           \* what EventWriter::write returned

vars == <<env, pc, result, handlerRet, forked, handlerInvoked, allowList,
          childPc, dirChanged, confined, swept, proc, sigPending, killed,
          exit_code, fds, calls, taken, termRets, killsSent, esLast,
          parentFds, childFds, kernel, ruleset, opened, accepted,
          hPc, runRet, state, progPc, pipes, cmd, args, cmdline, argv, qPc,
          environ, pairs, block, decoded, ePc,
          wenv, wPc, wRet, created, wchild, mutable, owners, handles, wproc, wlast,
          wsteps, thr, locks, esRets, lateKills, packet, writer, evRet>>

\* The Windows command line.
quoteVars == <<cmd, args, cmdline, argv, qPc>>

\* The Windows environment block.
envVars == <<environ, pairs, block, decoded, ePc>>

\* The Windows launch and the WindowsChild.
childVars == <<wenv, wPc, wRet, created, wchild, mutable, owners, handles, wproc, wlast,
               wsteps>>

\* The Windows back end, the command line apart.
windowsVars == <<envVars, childVars>>

\* The test handler and the test program of the noop scenario.
noopVars == <<hPc, runRet, state, progPc, pipes>>

\* The threads on the clones of one LinuxChildState.
supervisorVars == <<thr, locks, esRets, lateKills>>

\* EventWriter::write and its writer.
eventVars == <<packet, writer, evRet>>

\* The callers of the supervisor state and the packet writer.
sideVars == <<supervisorVars, eventVars>>

\* What the actions of the launch and of the Child calls never touch.
jailVars == <<kernel, opened, accepted, noopVars, quoteVars, windowsVars, sideVars>>

\* ------------------------------------------------- dependency resolver
\* std::path::absolute: a relative path is anchored, an absolute one is kept.
Absolute(path) == <<"abs", path[2]>>

\* from_path without the look at the disk: every path counts as resolved.
from_path_unchecked(path, required, on_disk) ==
    [path |-> path, realpath |-> Absolute(path), required |-> required]

\* Dependency::from_path: realpath is Some(absolute path) iff the file exists.
from_path(path, required, on_disk) ==
    [path |-> path,
     realpath |-> IF on_disk THEN Absolute(path) ELSE NoPath,
     required |-> required]

\* Dependency::from_library
from_library(lib, required_set) ==
    [path |-> lib.path,
     realpath |-> lib.realpath,
     required |-> lib.name \in required_set]

\* exists answering for the declared path instead of the resolved one.
exists_declared(dep) == dep.path # NoPath

\* Dependency::exists
exists(dep) == dep.realpath # NoPath

\* Dependency::best_path
best_path(dep) == IF dep.realpath # NoPath THEN dep.realpath ELSE dep.path

\* Dependency::invalid
invalid(dep) == dep.required /\ dep.realpath = NoPath

\* load_required_libs: the names any participant lists as directly needed.
load_required_libs(tree) ==
    tree.needed \cup UNION {tree.libraries[i].needed : i \in DOMAIN tree.libraries}

\* The loop of find_bin_dependencies over deps.libraries, with
\* Dependency::not_visited deciding which records are kept.
RECURSIVE collect_libraries(_, _, _, _, _)
collect_libraries(libs, i, visited, ret, required) ==
    IF i > Len(libs) THEN ret
    ELSE LET dep == from_library(libs[i], required)
             r == best_path(dep)
         IN IF r \notin visited
            THEN collect_libraries(libs, i + 1, visited \cup {r}, Append(ret, dep), required)
            ELSE collect_libraries(libs, i + 1, visited, ret, required)

\* find_bin_dependencies(exec): `present` is whether exec exists on disk,
\* `analysis` the analyzer's answer (ok = FALSE when it reports an error).
find_bin_dependencies(exec, present, analysis) ==
    LET exec_dep == from_path(exec, TRUE, present)
    IN IF exec_dep.realpath = NoPath THEN <<exec_dep>>
       ELSE IF ~analysis.ok THEN <<exec_dep>>
       ELSE collect_libraries(analysis.tree.libraries, 1, {}, <<exec_dep>>,
                              load_required_libs(analysis.tree))

\* extract_dependencies: the loop over deps; [ok, paths].
RECURSIVE extract_loop(_, _, _, _)
extract_loop(deps, i, is_ok, ret) ==
    IF i > Len(deps) THEN [ok |-> is_ok, paths |-> ret]
    ELSE IF invalid(deps[i]) THEN extract_loop(deps, i + 1, FALSE, ret)
    ELSE IF exists(deps[i])
         THEN extract_loop(deps, i + 1, is_ok, Append(ret, best_path(deps[i])))
    ELSE extract_loop(deps, i + 1, is_ok, ret)

extract_dependencies(deps) == extract_loop(deps, 1, TRUE, <<>>)

\* ------------------------------------------------------------ FD wiring
\* ForkedFd::new with an FdForkMap for every entry that is not Null.
RECURSIVE forked_fds_with_kept(_, _)
forked_fds_with_kept(cfg, fd) ==
    IF fd > MaxFd THEN <<>>
    ELSE IF cfg[fd] # "Null"
         THEN <<[dup_to |-> fd, direction |-> cfg[fd]]>> \o forked_fds_with_kept(cfg, fd + 1)
    ELSE forked_fds_with_kept(cfg, fd + 1)

\* ForkedFd::new: one FdForkMap per ToChild/FromChild entry, in FdSet order.
RECURSIVE forked_fds(_, _)
forked_fds(cfg, fd) ==
    IF fd > MaxFd THEN <<>>
    ELSE IF cfg[fd] \in StreamDirection
         THEN <<[dup_to |-> fd, direction |-> cfg[fd]]>> \o forked_fds(cfg, fd + 1)
    ELSE forked_fds(cfg, fd + 1)

\* ForkedFd::new: keep_fds, the descriptors the close sweep leaves alone.
keep_fds(cfg) == {fd \in Fds : cfg[fd] # "Null"}

\* ForkedFd::parent_after_fork followed by fd_map: dup_to -> parent stream.
fd_map(src) ==
    [fd \in {src[i].dup_to : i \in DOMAIN src} |->
        (CHOOSE m \in Range(src) : m.dup_to = fd).direction]

\* ---------------------------------------------------- descriptor tables
\* Descriptor numbers of one process.  Wide enough for the host's own
\* descriptors, the ruleset and both ends of one pipe per FdSet entry.
MaxDesc == 3 * MaxFd + 4
Descs == 0..MaxDesc

\* What a descriptor number refers to: nothing, an object the host opened
\* before the launch, the Landlock ruleset, or one end of the pipe made
\* for the pipe-th FdForkMap.
FreeDesc == [kind |-> "free", pipe |-> 0, end |-> "none"]
HostDesc == [kind |-> "host", pipe |-> 0, end |-> "none"]
RulesetDesc == [kind |-> "ruleset", pipe |-> 0, end |-> "none"]
PipeDesc(p, e) == [kind |-> "pipe", pipe |-> p, end |-> e]

NoTable == [n \in Descs |-> FreeDesc]
HostTable(open) == [n \in Descs |-> IF n \in open THEN HostDesc ELSE FreeDesc]
IsOpen(t, n) == n \in Descs /\ t[n] # FreeDesc

\* The number open(2), pipe(2) and landlock_create_ruleset(2) hand out.
lowest_free(t) ==
    CHOOSE n \in Descs : ~IsOpen(t, n) /\ \A m \in 0..(n - 1) : IsOpen(t, m)

\* close(2); closing a number that is not open is an ignored error.
close(t, n) == IF n \in Descs THEN [t EXCEPT ![n] = FreeDesc] ELSE t

\* dup2(2) of an open descriptor; old = new leaves the table as it is.
dup2(t, old, new) == [t EXCEPT ![new] = t[old]]

\* pipe(2): the read end, then the write end, on the lowest free numbers.
pipe(t, p) ==
    LET r == lowest_free(t)
        t1 == [t EXCEPT ![r] = PipeDesc(p, "read")]
        w == lowest_free(t1)
    IN [read_fd |-> r, write_fd |-> w, table |-> [t1 EXCEPT ![w] = PipeDesc(p, "write")]]

\* A Vec<FdForkMap> that goes out of scope without closing anything.
drop_nothing(t, maps) == t

\* Drop of a Vec<FdForkMap>: both OwnedFd of every entry are closed.
RECURSIVE drop_fds(_, _)
drop_fds(t, maps) ==
    IF maps = <<>> THEN t
    ELSE drop_fds(close(close(t, Head(maps).parent_fd), Head(maps).child_fd), Tail(maps))

\* ForkedFd::new over the Vec<Fd> of the FdSet, from entry i on.  fail_at
\* is the pipe() call that errs (0: none); the `?` then drops the maps
\* built so far.
RECURSIVE ForkedFd_new(_, _, _, _, _)
ForkedFd_new(e, i, maps, t, fail_at) ==
    IF i > Len(e.order) THEN [ok |-> TRUE, fds |-> maps, table |-> t]
    ELSE LET fd == e.order[i]
             mode == e.fds[fd]
         IN IF mode \notin StreamDirection THEN ForkedFd_new(e, i + 1, maps, t, fail_at)
            ELSE IF Len(maps) + 1 = fail_at
                 THEN [ok |-> FALSE, fds |-> <<>>, table |-> drop_fds(t, maps)]
            ELSE LET p == pipe(t, Len(maps) + 1)
                     m == IF mode = "FromChild"
                          THEN [dup_to |-> fd, parent_fd |-> p.read_fd,
                                child_fd |-> p.write_fd, direction |-> mode]
                          ELSE [dup_to |-> fd, parent_fd |-> p.write_fd,
                                child_fd |-> p.read_fd, direction |-> mode]
                 IN ForkedFd_new(e, i + 1, Append(maps, m), p.table, fail_at)

\* FdForkMap::parent_after_fork that keeps the child's end open too.
parent_keeps_child_end(t, m) == t

\* FdForkMap::parent_after_fork: parent_fd moves into the File, the rest
\* of self (child_fd) is dropped.
FdForkMap_parent_after_fork(t, m) == close(t, m.child_fd)

\* ForkedFd::parent_after_fork
RECURSIVE ForkedFd_parent_after_fork(_, _)
ForkedFd_parent_after_fork(t, maps) ==
    IF maps = <<>> THEN t
    ELSE ForkedFd_parent_after_fork(FdForkMap_parent_after_fork(t, Head(maps)), Tail(maps))

\* FdForkMap::child_after_fork after a dup2 that worked: self goes out of
\* scope, which closes parent_fd and child_fd in the child.
FdForkMap_child_after_fork(t, m) ==
    close(close(dup2(t, m.child_fd, m.dup_to), m.parent_fd), m.child_fd)

\* ForkedFd::child_after_fork from entry i on; fail_at is the dup2 that
\* returns -1 (0: none).
RECURSIVE ForkedFd_child_after_fork(_, _, _, _)
ForkedFd_child_after_fork(t, maps, i, fail_at) ==
    IF i > Len(maps) THEN [ok |-> TRUE, table |-> t]
    ELSE IF i = fail_at \/ ~IsOpen(t, maps[i].child_fd) THEN [ok |-> FALSE, table |-> t]
    ELSE ForkedFd_child_after_fork(FdForkMap_child_after_fork(t, maps[i]), maps, i + 1, fail_at)

\* A sweep that closes nothing.
close_nothing(t, except) == t

\* close_open_fds: every number of [0, OPEN_MAX) outside except is closed.
close_open_fds(t, except) ==
    [n \in Descs |-> IF n \in except THEN t[n] ELSE FreeDesc]

\* -------------------------------------------------------------- Landlock
\* abi_min of new_sandbox.
AbiMin == 1
\* abi_latest of new_sandbox.
AbiLatest == 6
\* First ABI with the TCP access rights.
AbiNet == 4
\* First ABI with the scopes (abstract unix sockets, signals).
AbiScope == 6

\* Landlock ABI a kernel can have; 0 is a kernel without Landlock.
Kernels == 0..AbiLatest

\* AccessFs::from_all(abi): the file access rights ABI abi knows.
AccessFs_from_all(abi) ==
    (IF abi >= 1
     THEN {"Execute", "WriteFile", "ReadFile", "ReadDir", "RemoveDir", "RemoveFile",
           "MakeChar", "MakeDir", "MakeReg", "MakeSock", "MakeFifo", "MakeBlock",
           "MakeSym"}
     ELSE {})
    \cup (IF abi >= 2 THEN {"Refer"} ELSE {})
    \cup (IF abi >= 3 THEN {"Truncate"} ELSE {})
    \cup (IF abi >= 5 THEN {"IoctlDev"} ELSE {})

\* Allow rules that grant the write right along with the read rights.
AccessFs_from_read_write(abi) ==
    IF abi >= 1 THEN {"Execute", "ReadFile", "ReadDir", "WriteFile"} ELSE {}

\* AccessFs::from_read(abi)
AccessFs_from_read(abi) == IF abi >= 1 THEN {"Execute", "ReadFile", "ReadDir"} ELSE {}

\* AccessNet::from_all(abi)
AccessNet_from_all(abi) == IF abi >= AbiNet THEN {"BindTcp", "ConnectTcp"} ELSE {}

\* The scopes ABI abi knows.
Scope_from_all(abi) == IF abi >= AbiScope THEN {"AbstractUnixSocket", "Signal"} ELSE {}

\* handle_access / scope under a compatibility level: a hard requirement
\* fails unless the kernel supports all of the request, best effort keeps
\* what the kernel supports and drops the rest silently.
try_compat(requested, supported, level) ==
    IF level = "HardRequirement" /\ ~(requested \subseteq supported)
    THEN [ok |-> FALSE, access |-> {}]
    ELSE [ok |-> TRUE, access |-> requested \cap supported]

NoRuleset ==
    [ok |-> FALSE, handled_fs |-> {}, handled_net |-> {}, scoped |-> {}, rules |-> <<>>]

\* new_sandbox on a kernel of ABI k: the ruleset, or NoRuleset for an Err.
new_sandbox(k, allowed_read_paths) ==
    LET hard == try_compat(AccessFs_from_all(AbiMin), AccessFs_from_all(k), "HardRequirement")
        scope == try_compat(Scope_from_all(AbiLatest), Scope_from_all(k), "BestEffort")
        soft == try_compat(AccessFs_from_all(AbiMin), AccessFs_from_all(k), "BestEffort")
        net == try_compat(AccessNet_from_all(AbiLatest), AccessNet_from_all(k), "BestEffort")
        handled == hard.access \cup soft.access
    IN IF ~hard.ok THEN NoRuleset
       ELSE [ok |-> TRUE,
             handled_fs |-> handled,
             handled_net |-> net.access,
             scoped |-> scope.access,
             rules |-> [p \in Range(allowed_read_paths) |->
                           AccessFs_from_read(AbiMin) \cap handled]]

\* The kernel's answer to a file access of a process confined by rs: a
\* right the ruleset does not handle is not restricted, a handled right
\* needs a rule on the path.
landlock_allows_fs(rs, path, right) ==
    \/ right \notin rs.handled_fs
    \/ path \in DOMAIN rs.rules /\ right \in rs.rules[path]

\* The kernel's answer to connect(2) on a TCP socket: no rule allows a port.
landlock_allows_connect(rs) == "ConnectTcp" \notin rs.handled_net

\* ------------------------------------------------------------- OS model
NoProc == [st |-> "none", how |-> "none", code |-> NoCode]
Running == [st |-> "running", how |-> "none", code |-> NoCode]
ExitedWith(c) == [st |-> "zombie", how |-> "exit", code |-> c]
Signaled == [st |-> "zombie", how |-> "signal", code |-> NoCode]
Reaped(p) == [p EXCEPT !.st = "reaped"]

\* waitpid(pid, WNOHANG): the WaitStatus seen and the process afterwards.
waitpid(p) ==
    CASE p.st = "running" -> [status |-> "StillAlive", code |-> NoCode, proc |-> p]
      [] p.st = "zombie" /\ p.how = "exit" ->
            [status |-> "Exited", code |-> p.code, proc |-> Reaped(p)]
      [] p.st = "zombie" /\ p.how = "signal" ->
            [status |-> "Signaled", code |-> NoCode, proc |-> Reaped(p)]
      [] OTHER -> [status |-> "Err", code |-> NoCode, proc |-> p]

\* kill(pid, SIGKILL): fails (ESRCH) once the pid has been reaped.
kill_ok(p) == p.st \in {"running", "zombie"}

\* ------------------------------------------------------ child supervisor
\* exit_code reading every status other than an error as a finished child.
LinuxChildState_exit_code_any_status(ec, p) ==
    IF ec # NoCode THEN [ret |-> ec, exit_code |-> ec, proc |-> p]
    ELSE LET w == waitpid(p)
         IN IF w.status # "Err"
            THEN [ret |-> IF w.status = "Exited" THEN w.code ELSE ExitClean,
                  exit_code |-> IF w.status = "Exited" THEN w.code ELSE ExitClean,
                  proc |-> w.proc]
            ELSE [ret |-> NoCode, exit_code |-> ec, proc |-> w.proc]

\* exit_code that asks waitpid every time and never reads the cache.
LinuxChildState_exit_code_uncached(ec, p) ==
    LET w == waitpid(p)
    IN IF w.status = "Exited"
       THEN [ret |-> w.code, exit_code |-> w.code, proc |-> w.proc]
       ELSE [ret |-> NoCode, exit_code |-> ec, proc |-> w.proc]

\* LinuxChildState::exit_code: the cached code, or one non-blocking waitpid
\* whose Exited status is cached.  ret = NoCode stands for None.
LinuxChildState_exit_code(ec, p) ==
    IF ec # NoCode THEN [ret |-> ec, exit_code |-> ec, proc |-> p]
    ELSE LET w == waitpid(p)
         IN IF w.status = "Exited"
            THEN [ret |-> w.code, exit_code |-> w.code, proc |-> w.proc]
            ELSE [ret |-> NoCode, exit_code |-> ec, proc |-> w.proc]

\* kill marking the child killed whatever the WaitStatus was.
kill_after_wait_marks_killed(k, ec, w) ==
    IF w.status = "Exited"
    THEN [ok |-> TRUE, code |-> w.code, killed |-> TRUE, exit_code |-> w.code,
          proc |-> w.proc, pending |-> FALSE, sent |-> 1]
    ELSE [ok |-> FALSE, code |-> NoCode, killed |-> TRUE, exit_code |-> ec,
          proc |-> w.proc, pending |-> w.proc.st = "running", sent |-> 1]

\* What LinuxChildState::kill does with the WaitStatus it reads after the
\* SIGKILL: only Exited marks the child killed and caches the code.
kill_after_wait(k, ec, w) ==
    IF w.status = "Exited"
    THEN [ok |-> TRUE, code |-> w.code, killed |-> TRUE, exit_code |-> w.code,
          proc |-> w.proc, pending |-> FALSE, sent |-> 1]
    ELSE [ok |-> FALSE, code |-> NoCode, killed |-> k, exit_code |-> ec,
          proc |-> w.proc, pending |-> w.proc.st = "running", sent |-> 1]

\* LinuxChildState::kill: the set of outcomes.  The SIGKILL is delivered
\* asynchronously, so a child that was running is, at the waitpid that
\* follows, either still running or already dead by the signal.
LinuxChildState_kill(k, ec, p, pend) ==
    IF k
    THEN {[ok |-> ec # NoCode, code |-> ec, killed |-> k, exit_code |-> ec,
           proc |-> p, pending |-> pend, sent |-> 0]}
    ELSE IF ~kill_ok(p)
    THEN {[ok |-> FALSE, code |-> NoCode, killed |-> k, exit_code |-> ec,
           proc |-> p, pending |-> pend, sent |-> 0]}
    ELSE {kill_after_wait(k, ec, waitpid(q)) :
            q \in IF p.st = "running" THEN {p, Signaled} ELSE {p}}

\* LinuxChild::take_stream_from_child: the entry is removed from the map,
\* then its direction decides whether the stream is handed out.
take_stream_from_child(map, fd) ==
    [some |-> fd \in DOMAIN map /\ map[fd] = "FromChild",
     fds |-> [f \in DOMAIN map \ {fd} |-> map[f]]]

\* LinuxChild::take_stream_to_child
take_stream_to_child(map, fd) ==
    [some |-> fd \in DOMAIN map /\ map[fd] = "ToChild",
     fds |-> [f \in DOMAIN map \ {fd} |-> map[f]]]

\* ---------------------------------------------------------------- inputs
\* The path `which` resolves env.cmd to; libraries are numbered from 1.
ExecPath == <<"rel", 0>>

\* lddtree::Library: realpath index 0 is an unresolved library.
Library(n, r, nd) ==
    [name |-> n, path |-> <<"abs", n>>,
     realpath |-> IF r = 0 THEN NoPath ELSE <<"real", r>>, needed |-> nd]

Libraries == {Library(n, r, nd) : n \in Names, r \in 0..MaxLibs, nd \in SUBSET Names}

\* Sequences of libraries with pairwise distinct names (the analyzer keys
\* its libraries by name).
LibrarySeqs ==
    {s \in SeqsUpTo(Libraries, MaxLibs) :
        \A i, j \in DOMAIN s : i # j => s[i].name # s[j].name}

Trees == [needed : SUBSET Names, libraries : LibrarySeqs]

\* The analyzer's answers used where the launch is followed through the
\* handler: one library that is needed, found in one and missing in the other.
ProbeAnalyses ==
    {[ok |-> TRUE, tree |-> [needed |-> {1}, libraries |-> <<Library(1, r, {})>>]] :
        r \in {0, 1}}

\* Every answer of the analyzer: an error, or any tree.
Analyses ==
    {[ok |-> FALSE, tree |-> [needed |-> {}, libraries |-> <<>>]]}
        \cup {[ok |-> TRUE, tree |-> t] : t \in Trees}

\* FdSet::basic: one mode per consecutive logical descriptor.
FdSets == [Fds -> FdMode]

\* FdSet::std and the set of no streams at all.
PlainFdSets ==
    {[fd \in Fds |-> IF fd = 0 THEN "ToChild" ELSE "FromChild"],
     [fd \in Fds |-> "Null"]}

\* A LaunchEnv and the host state it meets: whether PATH lookup finds cmd,
\* whether the file is on disk when the resolver looks, whether a string
\* of cwd / args / env holds a NUL, what the analyzer answers, the FdSet.
\* open is the set of descriptors the host holds when it calls, order the
\* Vec order of the FdSet entries.
HostEnvs(analyses, fdsets, opens, orders) ==
    [cmd_found : BOOLEAN, exe_present : BOOLEAN, has_nul : BOOLEAN,
     analysis : analyses, fds : fdsets, open : opens, order : orders]

\* A host that holds stdin, stdout and stderr.
StdOpen == 0..2

\* FdSet::basic: entry i is logical descriptor i - 1.
BasicOrder == [i \in 1..(MaxFd + 1) |-> i - 1]

\* FdSet::from_vec / from_map: the entries in any order, each logical
\* descriptor once.
Orders ==
    {o \in [1..(MaxFd + 1) -> Fds] : \A i, j \in 1..(MaxFd + 1) : i # j => o[i] # o[j]}

\* Hosts that hold any of the low descriptors, or none.
Opens == SUBSET (0..(MaxFd + 1))

Envs(analyses, fdsets) == HostEnvs(analyses, fdsets, {StdOpen}, {BasicOrder})

NoResult == [kind |-> "none", origin |-> "none", code |-> NoCode]
Ok(c) == [kind |-> "Ok", origin |-> "child", code |-> c]
Err(kind, origin) == [kind |-> kind, origin |-> origin, code |-> NoCode]

NoTake == [readers |-> 0, writers |-> 0, first_from |-> "unset", first_to |-> "unset"]
NoExitStatus ==
    [called |-> FALSE, ret |-> NoCode, cached |-> FALSE, before |-> NoProc, after |-> NoProc]

NoOpen == [path |-> NoPath, right |-> "none", granted |-> FALSE]

\* ExecutionState::new
NewExecutionState ==
    [exit_code |-> NoCode, handle_started |-> FALSE, sent_init |-> FALSE,
     read_start |-> FALSE, read_end |-> FALSE]

\* util::std_fd: 0 = ToChild, 1 = FromChild, 2 = KeepInChild.
NoopFdSet ==
    [fd \in Fds |-> IF fd = 0 THEN "ToChild"
                    ELSE IF fd = 1 THEN "FromChild" ELSE "KeepInChild"]

\* No command line: the Linux back end hands argv to execve as it is.
NoCmdline == [ok |-> FALSE, ret |-> <<>>]

\* No command and no arguments.
InitQuoteVars ==
    /\ cmd = <<>>
    /\ args = <<>>
    /\ cmdline = NoCmdline
    /\ argv = <<>>
    /\ qPc = "start"

\* No environment block: nothing was encoded.
NoBlock == [ok |-> FALSE, ret |-> <<>>]

\* ---- the Windows launch and the WindowsChild at rest
\* Logical descriptors of a Windows launch: standard I/O and the others.
WinFdNumbers == 0..(MaxFd + 2)
OtherFds == WinFdNumbers \ {0, 1, 2}

\* A WinFd as the parent holds it: absent, StdIoFd::None, or a pipe.
NoWinFd ==
    [kind |-> "absent", parent_handle |-> FALSE, child_handle |-> FALSE,
     direction |-> "none"]

NoHandle == [st |-> "none", closes |-> 0, stale |-> FALSE]
OpenHandle == [NoHandle EXCEPT !.st = "open"]
NoHandles == [process |-> NoHandle, thread |-> NoHandle, job |-> NoHandle]
NoWinProc == [st |-> "none", job |-> FALSE, code |-> 0]

NoCall == [op |-> "none", arg |-> 0, ret |-> "none", code |-> NoCode]
\* A launch of nothing on a host where nothing fails.
WinEnvAtRest ==
    [cmd |-> TRUE, cwd |-> TRUE, fds |-> [fd \in WinFdNumbers |-> "Null"],
     fails |-> "none", flip |-> FALSE, system_root |-> <<>>,
     windir |-> <<>>, app_folder |-> <<>>]

\* No launch and no child.
InitChildVars ==
    /\ wenv = WinEnvAtRest
    /\ wPc = "start"
    /\ wRet = "none"
    /\ created = 0
    /\ wchild = [stdin |-> NoWinFd, stdout |-> NoWinFd, stderr |-> NoWinFd,
                 others |-> [fd \in OtherFds |-> NoWinFd]]
    /\ mutable = [terminated |-> FALSE, exit_code |-> NoCode]
    /\ owners = [o \in 0..MaxClones |-> "none"]
    /\ handles = NoHandles
    /\ wproc = NoWinProc
    /\ wlast = NoCall
    /\ wsteps = <<>>

\* No environment.
InitEnvVars ==
    /\ environ = <<>>
    /\ pairs = <<>>
    /\ block = NoBlock
    /\ decoded = <<>>
    /\ ePc = "start"

\* The Windows back end at rest.
InitWindowsVars == InitEnvVars /\ InitChildVars

\* No thread has called into the supervisor state; no packet was written.
Threads == 1..MaxThreads
Idle == [call |-> "none", pc |-> "idle", ret |-> "none", code |-> NoCode]
NoLocks == [killed |-> 0, exit_code |-> 0]
NoPacket ==
    [header |-> [packet_id |-> <<>>, cmd_packet_id |-> <<>>, event_id |-> <<>>,
                 size |-> 0],
     payload |-> <<>>]
NewWriter == [buffered |-> <<>>, written |-> <<>>, flushes |-> 0, fail_at |-> 0]

InitSupervisorVars ==
    /\ thr = [t \in Threads |-> Idle]
    /\ locks = NoLocks
    /\ esRets = <<>>
    /\ lateKills = 0

InitSideVars ==
    /\ InitSupervisorVars
    /\ packet = NoPacket
    /\ writer = NewWriter
    /\ evRet = "none"

\* The Linux back end before sandbox_child is called.
InitLinuxVars(E, K) ==
    /\ env \in E
    /\ kernel \in K
    /\ ruleset = NoRuleset
    /\ opened = NoOpen
    /\ accepted = 0
    /\ hPc = "start"
    /\ runRet = "none"
    /\ state = NewExecutionState
    /\ progPc = "read0"
    /\ pipes = [to |-> <<>>, from |-> <<>>]
    /\ pc = "start"
    /\ result = NoResult
    /\ handlerRet = "none"
    /\ forked = FALSE
    /\ handlerInvoked = FALSE
    /\ allowList = <<>>
    /\ childPc = "none"
    /\ dirChanged = FALSE
    /\ confined = FALSE
    /\ swept = FALSE
    /\ proc = NoProc
    /\ sigPending = FALSE
    /\ killed = FALSE
    /\ exit_code = NoCode
    /\ fds = <<>>
    /\ calls = 0
    /\ taken = [fd \in Fds |-> NoTake]
    /\ termRets = <<>>
    /\ killsSent = 0
    /\ esLast = NoExitStatus
    /\ parentFds = HostTable(env.open)
    /\ childFds = NoTable

InitLinux(E, K) == InitLinuxVars(E, K) /\ InitSideVars

InitHost(E, K) == InitLinux(E, K) /\ InitQuoteVars /\ InitWindowsVars

\* A host whose kernel has the latest Landlock ABI the crate knows.
InitWith(E) == InitHost(E, {AbiLatest})

Init == InitWith(Envs(ProbeAnalyses, FdSets))

InitLaunch == InitWith(Envs(Analyses, PlainFdSets))

\* Any FdSet in any order, launched from a host with any low descriptors.
InitFd == InitWith(HostEnvs(ProbeAnalyses, FdSets, Opens, Orders))

\* The standard launch on a kernel of any Landlock ABI.
InitJail == InitHost(Envs(ProbeAnalyses, PlainFdSets), Kernels)

\* The launch of the noop test.
InitNoop == InitWith(Envs(ProbeAnalyses, {NoopFdSet}))

\* ---------------------------------------------------------------- launch
\* launch_child in the parent, up to and including fork: the error it
\* returns, or NoResult when the fork succeeded.  jail_ok, pipes_ok and
\* fork_ok are the host's answers to ruleset creation, pipe() and fork().
launch_error(e, jail_ok, pipes_ok, fork_ok) ==
    IF ~e.cmd_found THEN Err("Io", "launch")
    ELSE IF ~extract_dependencies(
                find_bin_dependencies(ExecPath, e.exe_present, e.analysis)).ok
         THEN Err("JailSetup", "launch")
    ELSE IF ~jail_ok THEN Err("JailSetup", "launch")
    ELSE IF ~pipes_ok THEN Err("Io", "launch")
    ELSE IF e.has_nul THEN Err("Io", "launch")
    ELSE IF ~fork_ok THEN Err("Io", "launch")
    ELSE NoResult

\* The read allow-list handed to LandlockJail::new.
read_allow_list(e) ==
    extract_dependencies(find_bin_dependencies(ExecPath, e.exe_present, e.analysis)).paths

\* The descriptor LandlockJail::new gets for the ruleset.
ruleset_fd(e) == lowest_free(HostTable(e.open))

\* The FdForkMaps of a ForkedFd::new in which every pipe() worked.
fd_set(e) ==
    ForkedFd_new(e, 1, <<>>, [HostTable(e.open) EXCEPT ![ruleset_fd(e)] = RulesetDesc], 0).fds

\* launch_child in the parent, descriptor by descriptor: the host's table
\* when the call is over and, after a fork, the table the child starts
\* with.  Whatever the call opened and did not hand out is dropped on the
\* way out: the maps built by ForkedFd::new, the ForkedFd, the LandlockJail.
launch_tables(e, jail_ok, fail_at, fork_ok) ==
    LET t0 == HostTable(e.open)
        rs == ruleset_fd(e)
        t1 == [t0 EXCEPT ![rs] = RulesetDesc]
        f == ForkedFd_new(e, 1, <<>>, t1, fail_at)
    IN IF ~e.cmd_found
          \/ ~extract_dependencies(
                 find_bin_dependencies(ExecPath, e.exe_present, e.analysis)).ok
       THEN [parent |-> t0, child |-> NoTable]
       ELSE IF ~jail_ok THEN [parent |-> close(t1, rs), child |-> NoTable]
       ELSE IF ~f.ok THEN [parent |-> close(f.table, rs), child |-> NoTable]
       ELSE IF e.has_nul \/ ~fork_ok
            THEN [parent |-> close(drop_fds(f.table, f.fds), rs), child |-> NoTable]
       ELSE [parent |-> close(ForkedFd_parent_after_fork(f.table, f.fds), rs),
             child |-> f.table]

\* sandbox_child up to the call of handler.handle: launch_child either
\* fails (and its error is returned at once) or forks, builds the
\* LinuxChild in the parent and the handler is entered.
SandboxChildLaunch ==
    /\ pc = "start"
    /\ \E jail_ok \in (IF new_sandbox(kernel, read_allow_list(env)).ok
                         THEN BOOLEAN ELSE {FALSE}),
          fork_ok \in BOOLEAN,
          fail_at \in 0..Len(forked_fds(env.fds, 0)) :
         LET err == launch_error(env, jail_ok, fail_at = 0, fork_ok)
             tables == launch_tables(env, jail_ok, fail_at, fork_ok)
         IN /\ parentFds' = tables.parent
            /\ childFds' = tables.child
            /\ IF err # NoResult
               THEN /\ pc' = "returned"
                    /\ result' = err
                    /\ UNCHANGED <<forked, handlerInvoked, allowList, childPc, proc,
                                   fds, ruleset>>
               ELSE /\ pc' = "handle"
                    /\ result' = result
                    /\ forked' = TRUE
                    /\ handlerInvoked' = TRUE
                    /\ allowList' = read_allow_list(env)
                    /\ childPc' = "forked"
                    /\ proc' = Running
                    /\ fds' = fd_map(forked_fds(env.fds, 0))
                    /\ ruleset' = new_sandbox(kernel, read_allow_list(env))
    /\ UNCHANGED <<env, handlerRet, dirChanged, confined, swept, sigPending, killed,
                   exit_code, calls, taken, termRets, killsSent, esLast, jailVars>>

\* ------------------------------------------------ the child before exec
ChildAlive == proc.st = "running" /\ ~sigPending

\* An exit that reports a panic whatever the failure was.
ChildExitAsPanic(code) ==
    /\ childPc' = "exited"
    /\ proc' = ExitedWith(ExitPanic)

\* std::process::exit(code) in the child.
ChildExit(code) ==
    /\ childPc' = "exited"
    /\ proc' = ExitedWith(code)

ChildFrame ==
    UNCHANGED <<env, pc, result, handlerRet, forked, handlerInvoked, allowList,
                sigPending, killed, exit_code, fds, calls, taken, termRets,
                killsSent, esLast, parentFds, ruleset, jailVars>>

\* ForkedFd::child_after_fork: dup2 of every child end onto its target;
\* the first dup2 that fails ends the child.
ChildAfterFork ==
    /\ ChildAlive /\ childPc = "forked"
    /\ \E fail_at \in 0..Len(fd_set(env)) :
         LET r == ForkedFd_child_after_fork(childFds, fd_set(env), 1, fail_at)
         IN /\ childFds' = r.table
            /\ IF r.ok THEN childPc' = "fds_installed" /\ proc' = proc
               ELSE ChildExit(ExitSetup)
    /\ UNCHANGED <<dirChanged, confined, swept>>
    /\ ChildFrame

\* chdir(cwd)
ChildChdir ==
    /\ ChildAlive /\ childPc = "fds_installed"
    /\ \E chdir_ok \in BOOLEAN :
         IF chdir_ok
         THEN childPc' = "dir_changed" /\ dirChanged' = TRUE /\ proc' = proc
         ELSE ChildExit(ExitSetup) /\ dirChanged' = dirChanged
    /\ UNCHANGED <<confined, swept, childFds>>
    /\ ChildFrame

\* restrict whose exit_err returns instead of ending the child.
restrict_never_exits(status) == TRUE

\* What LandlockJail::restrict does with the answer of restrict_self:
\* TRUE when the child goes on, FALSE when it exits.
restrict_continues(status) == status = "Available"

\* What restrict_self can answer: anything when the descriptor it holds is
\* still the ruleset, an error when the number now refers to something else.
restrict_self_answers(t, rs) ==
    IF t[rs] = RulesetDesc THEN {"Err", "NotEnabled", "NotImplemented", "Available"}
    ELSE {"Err"}

\* LandlockJail::restrict.  restrict_self consumes the RulesetCreated, so
\* its descriptor is closed when the call is over.
ChildRestrict ==
    /\ ChildAlive /\ childPc = "dir_changed"
    /\ \E status \in restrict_self_answers(childFds, ruleset_fd(env)) :
         IF restrict_continues(status)
         THEN /\ childPc' = "restricted"
              /\ confined' = (status = "Available")
              /\ proc' = proc
              /\ childFds' = close(childFds, ruleset_fd(env))
         ELSE ChildExit(ExitJail) /\ confined' = confined /\ childFds' = childFds
    /\ UNCHANGED <<dirChanged, swept>>
    /\ ChildFrame

\* close_open_fds(&child_fds)
ChildCloseFds ==
    /\ ChildAlive /\ childPc = "restricted"
    /\ childPc' = "fds_closed"
    /\ swept' = TRUE
    /\ childFds' = close_open_fds(childFds, keep_fds(env.fds))
    /\ UNCHANGED <<dirChanged, confined, proc>>
    /\ ChildFrame

\* execve, and exit(254) when it returns.
ChildExec ==
    /\ ChildAlive /\ childPc = "fds_closed"
    /\ \E exec_ok \in BOOLEAN :
         IF exec_ok THEN childPc' = "execd" /\ proc' = proc
         ELSE ChildExit(ExitExec)
    /\ UNCHANGED <<dirChanged, confined, swept, childFds>>
    /\ ChildFrame

\* The executed program ends by itself.
ChildProgramExit ==
    /\ ChildAlive /\ childPc = "execd"
    /\ \E code \in UserExitCodes : ChildExit(code)
    /\ UNCHANGED <<dirChanged, confined, swept, childFds>>
    /\ ChildFrame

\* The queued SIGKILL ends the child, wherever it is.
ChildDiesOfSignal ==
    /\ proc.st = "running" /\ sigPending
    /\ proc' = Signaled
    /\ sigPending' = FALSE
    /\ UNCHANGED <<env, pc, result, handlerRet, forked, handlerInvoked, allowList,
                   childPc, dirChanged, confined, swept, killed, exit_code, fds,
                   calls, taken, termRets, killsSent, esLast, parentFds, childFds,
                   ruleset, jailVars>>

\* ----------------------------------------------- the handler's Child calls
InHandler == pc = "handle" /\ calls < MaxCalls

HandlerFrame ==
    UNCHANGED <<env, pc, result, handlerRet, forked, handlerInvoked, allowList,
                childPc, dirChanged, confined, swept, childFds, ruleset, jailVars>>

\* How one take_stream_* call is entered in the per-descriptor record.
note_from(t, some) ==
    [t EXCEPT !.readers = IF some THEN @ + 1 ELSE @,
              !.first_from = IF @ = "unset" THEN (IF some THEN "Some" ELSE "None") ELSE @]

note_to(t, some) ==
    [t EXCEPT !.writers = IF some THEN @ + 1 ELSE @,
              !.first_to = IF @ = "unset" THEN (IF some THEN "Some" ELSE "None") ELSE @]

\* The descriptor of the parent's stream for logical descriptor fd.
parent_fd_of(e, fd) == (CHOOSE m \in Range(fd_set(e)) : m.dup_to = fd).parent_fd

\* The host's table after a take_stream_* call: an FdMap that was removed
\* from the map and not handed out is dropped, which closes its File.
after_take(t, e, map, fd, some) ==
    IF fd \in DOMAIN map /\ ~some THEN close(t, parent_fd_of(e, fd)) ELSE t

\* child.take_stream_from_child(fd)
TakeStreamFromChild ==
    /\ InHandler
    /\ \E fd \in Fds :
         LET r == take_stream_from_child(fds, fd)
         IN /\ fds' = r.fds
            /\ taken' = [taken EXCEPT ![fd] = note_from(@, r.some)]
            /\ parentFds' = after_take(parentFds, env, fds, fd, r.some)
    /\ calls' = calls + 1
    /\ UNCHANGED <<proc, sigPending, killed, exit_code, termRets, killsSent, esLast>>
    /\ HandlerFrame

\* child.take_stream_to_child(fd)
TakeStreamToChild ==
    /\ InHandler
    /\ \E fd \in Fds :
         LET r == take_stream_to_child(fds, fd)
         IN /\ fds' = r.fds
            /\ taken' = [taken EXCEPT ![fd] = note_to(@, r.some)]
            /\ parentFds' = after_take(parentFds, env, fds, fd, r.some)
    /\ calls' = calls + 1
    /\ UNCHANGED <<proc, sigPending, killed, exit_code, termRets, killsSent, esLast>>
    /\ HandlerFrame

\* child.exit_status()
ExitStatus ==
    /\ InHandler
    /\ LET r == LinuxChildState_exit_code(exit_code, proc)
       IN /\ exit_code' = r.exit_code
          /\ proc' = r.proc
          /\ esLast' = [called |-> TRUE, ret |-> r.ret, cached |-> exit_code # NoCode,
                        before |-> proc, after |-> r.proc]
    /\ calls' = calls + 1
    /\ UNCHANGED <<sigPending, killed, fds, taken, termRets, killsSent, parentFds>>
    /\ HandlerFrame

\* child.terminate()
Terminate ==
    /\ InHandler
    /\ \E r \in LinuxChildState_kill(killed, exit_code, proc, sigPending) :
         /\ killed' = r.killed
         /\ exit_code' = r.exit_code
         /\ proc' = r.proc
         /\ sigPending' = r.pending
         /\ killsSent' = killsSent + r.sent
         /\ termRets' = Append(termRets, [ok |-> r.ok, code |-> r.code,
                                            before |-> proc.st, sent |-> r.sent])
    /\ calls' = calls + 1
    /\ UNCHANGED <<fds, taken, esLast, parentFds>>
    /\ HandlerFrame

\* handler.handle returns and its Err is dropped instead of propagated.
HandlerReturnsErrDropped ==
    /\ pc = "handle"
    /\ \E r \in {"Ok", "Err"} : handlerRet' = r
    /\ pc' = "child_exit_code"
    /\ fds' = <<>>
    /\ parentFds' = HostTable(env.open)
    /\ UNCHANGED <<env, result, forked, handlerInvoked, allowList, childPc, dirChanged,
                   confined, swept, proc, sigPending, killed, exit_code, calls,
                   taken, termRets, killsSent, esLast, childFds, ruleset, jailVars>>

\* sandbox_child when handler.handle has returned r.  The Child the
\* handler owned is dropped with it, which closes the streams still in the
\* map, and so are the streams the handler took; an Err leaves
\* sandbox_child at once through the `?`.
handle_returned(r) ==
    /\ handlerRet' = r
    /\ IF r = "Err"
       THEN pc' = "returned" /\ result' = Err("Io", "handler")
       ELSE pc' = "child_exit_code" /\ result' = result
    /\ fds' = <<>>
    /\ parentFds' = HostTable(env.open)
    /\ UNCHANGED <<env, forked, handlerInvoked, allowList, childPc, dirChanged,
                   confined, swept, proc, sigPending, killed, exit_code, calls,
                   taken, termRets, killsSent, esLast, childFds, ruleset,
                   kernel, opened, accepted, quoteVars, windowsVars, sideVars>>

\* handler.handle returns, with whatever result.
HandlerReturns ==
    /\ pc = "handle"
    /\ \E r \in {"Ok", "Err"} : handle_returned(r)
    /\ UNCHANGED noopVars

\* The value sandbox_child returns for a reaped child.
exit_result(code) ==
    IF code = ExitClean THEN Ok(code)
    ELSE [kind |-> "ProcessError", origin |-> "child", code |-> code]

\* state.child_exit_code(), first half: the non-blocking reap.
ChildExitCode ==
    /\ pc = "child_exit_code"
    /\ LET r == LinuxChildState_exit_code(exit_code, proc)
       IN /\ exit_code' = r.exit_code
          /\ proc' = r.proc
          /\ IF r.ret # NoCode
             THEN pc' = "returned" /\ result' = exit_result(r.ret)
             ELSE pc' = "child_kill" /\ result' = result
    /\ UNCHANGED <<env, handlerRet, forked, handlerInvoked, allowList, childPc,
                   dirChanged, confined, swept, sigPending, killed, fds, calls,
                   taken, termRets, killsSent, esLast, parentFds, childFds,
                   ruleset, jailVars>>

\* state.child_exit_code(), second half: force-terminate and reap.
ChildExitKill ==
    /\ pc = "child_kill"
    /\ \E r \in LinuxChildState_kill(killed, exit_code, proc, sigPending) :
         /\ killed' = r.killed
         /\ exit_code' = r.exit_code
         /\ proc' = r.proc
         /\ sigPending' = r.pending
         /\ killsSent' = killsSent + r.sent
         /\ result' = IF r.ok THEN exit_result(r.code) ELSE Err("Io", "child")
    /\ pc' = "returned"
    /\ UNCHANGED <<env, handlerRet, forked, handlerInvoked, allowList, childPc,
                   dirChanged, confined, swept, fds, calls, taken, termRets, esLast,
                   parentFds, childFds, ruleset, jailVars>>

\* ------------------------------------------- the confined program at work
\* Files of the host: the executable, the libraries as declared and as
\* resolved, and files that have nothing to do with the program.
Paths == {<<k, n>> : k \in {"abs", "real"}, n \in 0..(MaxLibs + 1)}

\* The access right open(2) and execve(2) need for what they are asked.
OpenRights == {"ReadFile", "WriteFile", "ReadDir", "Execute"}

JailFrame ==
    UNCHANGED <<env, pc, result, handlerRet, forked, handlerInvoked, allowList,
                childPc, dirChanged, confined, swept, proc, sigPending, killed,
                exit_code, fds, calls, taken, termRets, killsSent, esLast,
                parentFds, childFds, kernel, ruleset, noopVars, quoteVars,
                windowsVars, sideVars>>

\* The executed program opens a file (file-read test program).
ChildOpen ==
    /\ ChildAlive /\ childPc = "execd"
    /\ \E path \in Paths, right \in OpenRights :
         opened' = [path |-> path, right |-> right,
                    granted |-> ~confined \/ landlock_allows_fs(ruleset, path, right)]
    /\ UNCHANGED accepted
    /\ JailFrame

\* The executed program connects to the TCP server of the host (tcpip
\* test program); a connection that is made is accepted by the server.
ChildConnect ==
    /\ ChildAlive /\ childPc = "execd"
    /\ accepted < MaxCalls
    /\ accepted' = IF ~confined \/ landlock_allows_connect(ruleset)
                   THEN accepted + 1 ELSE accepted
    /\ UNCHANGED opened
    /\ JailFrame

\* ------------------------------------------------ Windows command line
\* UTF-16 code units.
NUL == 0
TAB == 9
LF == 10
VT == 11
SPACE == 32
QUOTE == 34
BACKSLASH == 92
LETTER == 97

Units == {NUL, TAB, LF, VT, SPACE, QUOTE, BACKSLASH, LETTER}

\* OsStrings of at most n code units.
OsStrings(n) == UNION {[1..k -> Units] : k \in 0..n}

\* Argument lists of at most n arguments and len code units.
RECURSIVE ArgLists(_, _)
ArgLists(len, n) ==
    IF n = 0 THEN {<<>>}
    ELSE {<<>>} \cup
         UNION {{<<a>> \o rest : rest \in ArgLists(len - Len(a), n - 1)} :
                  a \in OsStrings(len)}

\* n backslashes.
Backslashes(n) == [i \in 1..n |-> BACKSLASH]

\* char_requires_quoting without the vertical tab.
char_requires_quoting_c_isspace(b) == b \in {SPACE, TAB, LF, QUOTE}

char_requires_quoting(b) == b \in {SPACE, TAB, LF, VT, QUOTE}

requires_quoting(val) ==
    val = <<>> \/ \E i \in 1..Len(val) : char_requires_quoting(val[i])

\* enforce_no_zero: TRUE stands for Ok.
enforce_no_zero(val) == ~\E i \in 1..Len(val) : val[i] = NUL

\* The loop of append_arg over the code units of arg from index i on, and
\* the trailing backslashes it emits after the loop.
RECURSIVE append_quoted(_, _, _)
append_quoted(arg, i, backslash_count) ==
    IF i > Len(arg) THEN Backslashes(backslash_count * 2)
    ELSE IF arg[i] = BACKSLASH THEN append_quoted(arg, i + 1, backslash_count + 1)
    ELSE IF arg[i] = QUOTE
         THEN Backslashes(backslash_count * 2 + 1) \o <<QUOTE>>
                  \o append_quoted(arg, i + 1, 0)
    ELSE Backslashes(backslash_count) \o <<arg[i]>> \o append_quoted(arg, i + 1, 0)

\* append_arg that copies the code units between the quotes as they are.
append_arg_verbatim(vec, arg) ==
    IF ~enforce_no_zero(arg) THEN [ok |-> FALSE, ret |-> vec]
    ELSE IF ~requires_quoting(arg) THEN [ok |-> TRUE, ret |-> vec \o arg]
    ELSE [ok |-> TRUE, ret |-> vec \o <<QUOTE>> \o arg \o <<QUOTE>>]

\* append_arg: the vector after the call, or the error of enforce_no_zero.
append_arg(vec, arg) ==
    IF ~enforce_no_zero(arg) THEN [ok |-> FALSE, ret |-> vec]
    ELSE IF ~requires_quoting(arg) THEN [ok |-> TRUE, ret |-> vec \o arg]
    ELSE [ok |-> TRUE, ret |-> vec \o <<QUOTE>> \o append_quoted(arg, 1, 0) \o <<QUOTE>>]

\* The loop of quote_arguments over args from index i on.
RECURSIVE quote_arguments_loop(_, _, _)
quote_arguments_loop(vec, list, i) ==
    IF ~vec.ok THEN [ok |-> FALSE, ret |-> <<>>]
    ELSE IF i > Len(list) THEN [ok |-> TRUE, ret |-> Append(vec.ret, NUL)]
    ELSE quote_arguments_loop(append_arg(Append(vec.ret, SPACE), list[i]), list, i + 1)

quote_arguments(c, list) == quote_arguments_loop(append_arg(<<>>, c), list, 1)

\* ---- the parse of the command line in the started program
\* CommandLineToArgvW reads the NUL-terminated line CreateProcessAsUserW was
\* given.  Blanks between arguments are the space and the tab.
IsBlank(u) == u \in {SPACE, TAB}

\* The first index from i on whose unit is in stop; the line ends with NUL.
RECURSIVE scan(_, _, _)
scan(line, i, stop) ==
    IF line[i] \in stop THEN i ELSE scan(line, i + 1, stop)

\* The first index from i on that holds no blank.
RECURSIVE skip_blanks(_, _)
skip_blanks(line, i) ==
    IF IsBlank(line[i]) THEN skip_blanks(line, i + 1) ELSE i

\* The program name: backslashes are not special in it.  It runs from an
\* opening quote to the next quote, or else to the next blank.
program_name(line) ==
    IF line[1] = QUOTE
    THEN LET j == scan(line, 2, {QUOTE, NUL})
         IN [arg |-> SubSeq(line, 2, j - 1),
             next |-> IF line[j] = QUOTE THEN j + 1 ELSE j]
    ELSE LET j == scan(line, 1, {SPACE, TAB, NUL})
         IN [arg |-> SubSeq(line, 1, j - 1), next |-> j]

\* The number of quotes in a row from index i on.
RECURSIVE quote_run(_, _)
quote_run(line, i) ==
    IF line[i] = QUOTE THEN 1 + quote_run(line, i + 1) ELSE 0

\* n quotes in a row after a quote, read with quote count q: every third
\* one is a literal quote.
RECURSIVE count_quotes(_, _, _)
count_quotes(q, n, literal) ==
    IF n = 0 THEN [q |-> q, literal |-> literal]
    ELSE IF q + 1 = 3 THEN count_quotes(0, n - 1, literal + 1)
    ELSE count_quotes(q + 1, n - 1, literal)

Quotes(n) == [i \in 1..n |-> QUOTE]

DropLast(seq, n) == SubSeq(seq, 1, Len(seq) - n)

\* The arguments after the program name.  cur is the argument being
\* built, q the quote count (1: inside quotes), b the number of
\* backslashes just read.  2n backslashes and a quote give n backslashes
\* and toggle the quoting; 2n+1 backslashes and a quote give n backslashes
\* and a literal quote.
RECURSIVE parse_arguments(_, _, _, _, _, _)
parse_arguments(line, i, cur, q, b, out) ==
    LET u == line[i]
    IN IF u = NUL THEN Append(out, cur)
       ELSE IF IsBlank(u) /\ q = 0
       THEN LET j == skip_blanks(line, i)
            IN IF line[j] = NUL THEN Append(out, cur)
               ELSE parse_arguments(line, j, <<>>, 0, 0, Append(out, cur))
       ELSE IF u = BACKSLASH
       THEN parse_arguments(line, i + 1, Append(cur, u), q, b + 1, out)
       ELSE IF u = QUOTE
       THEN LET kept == IF b % 2 = 0 THEN DropLast(cur, b \div 2)
                        ELSE Append(DropLast(cur, b \div 2 + 1), QUOTE)
                n == quote_run(line, i + 1)
                r == count_quotes(IF b % 2 = 0 THEN q + 1 ELSE q, n, 0)
            IN parse_arguments(line, i + 1 + n, kept \o Quotes(r.literal),
                               IF r.q = 2 THEN 0 ELSE r.q, 0, out)
       ELSE parse_arguments(line, i + 1, Append(cur, u), q, 0, out)

CommandLineToArgvW(line) ==
    LET name == program_name(line)
        j == skip_blanks(line, name.next)
    IN IF line[j] = NUL THEN <<name.arg>>
       ELSE parse_arguments(line, j, <<>>, 0, 0, <<name.arg>>)

QuoteFrame ==
    UNCHANGED <<env, pc, result, handlerRet, forked, handlerInvoked, allowList,
                childPc, dirChanged, confined, swept, proc, sigPending, killed,
                exit_code, fds, calls, taken, termRets, killsSent, esLast,
                parentFds, childFds, kernel, ruleset, opened, accepted, noopVars,
                cmd, args, windowsVars, sideVars>>

\* launch_child: the command line is built before anything is created.
QuoteArguments ==
    /\ qPc = "start"
    /\ cmdline' = quote_arguments(cmd, args)
    /\ qPc' = IF cmdline'.ok THEN "quoted" ELSE "failed"
    /\ argv' = argv
    /\ QuoteFrame

\* The started program reads its arguments.
ProgramParsesCommandLine ==
    /\ qPc = "quoted"
    /\ argv' = CommandLineToArgvW(cmdline.ret)
    /\ qPc' = "parsed"
    /\ cmdline' = cmdline
    /\ QuoteFrame

\* ---------------------------------------------- Windows environment block
EQUALS == 61
UPPER_A == 65
UPPER_B == 66

EnvUnits == {NUL, EQUALS, UPPER_A, UPPER_B, LETTER}

\* OsStrings of at most n code units an environment is written with.
EnvStrings(n) == UNION {[1..k -> EnvUnits] : k \in 0..n}

\* Slices of at most n (key, value) pairs and len code units.
RECURSIVE PairLists(_, _)
PairLists(len, n) ==
    IF n = 0 THEN {<<>>}
    ELSE {<<>>} \cup
         UNION {UNION {{<<<<k, v>>>> \o rest :
                          rest \in PairLists(len - Len(k) - Len(v), n - 1)} :
                         v \in EnvStrings(len - Len(k))} :
                  k \in EnvStrings(len)}

\* str::to_lowercase and str::to_uppercase, on the ASCII letters.
to_lowercase(str) ==
    [i \in 1..Len(str) |-> IF str[i] \in 65..90 THEN str[i] + 32 ELSE str[i]]

to_uppercase(str) ==
    [i \in 1..Len(str) |-> IF str[i] \in 97..122 THEN str[i] - 32 ELSE str[i]]

\* Ordering of strings: a.cmp(&b) = Less.
Less(a, b) ==
    \E k \in 1..(Len(a) + 1) :
      /\ k <= Len(b)
      /\ \A i \in 1..(k - 1) : a[i] = b[i]
      /\ k > Len(a) \/ a[k] < b[k]

\* pairs.sort_by(lowercase keys): the sort is stable, an entry goes after
\* every entry that is not greater than it.
RECURSIVE sort_by(_)
sort_by(v) ==
    IF v = <<>> THEN <<>>
    ELSE LET n == Len(v)
             x == v[n]
             sorted == sort_by(SubSeq(v, 1, n - 1))
             at == Cardinality({i \in 1..(n - 1) :
                                  ~Less(to_lowercase(x[1]), to_lowercase(sorted[i][1]))})
         IN SubSeq(sorted, 1, at) \o <<x>> \o SubSeq(sorted, at + 1, n - 1)

\* The loop of encode_env_strings over the sorted pairs from index i on.
RECURSIVE encode_loop(_, _, _)
encode_loop(sorted, i, blk) ==
    IF i > Len(sorted) THEN [ok |-> TRUE, ret |-> Append(blk, NUL)]
    ELSE IF ~enforce_no_zero(sorted[i][1]) \/ ~enforce_no_zero(sorted[i][2])
    THEN [ok |-> FALSE, ret |-> <<>>]
    ELSE encode_loop(sorted, i + 1,
                     blk \o sorted[i][1] \o <<EQUALS>> \o sorted[i][2] \o <<NUL>>)

encode_env_strings(e) ==
    IF Len(e) = 0 THEN [ok |-> TRUE, ret |-> <<NUL, NUL>>]
    ELSE encode_loop(sort_by(e), 1, <<>>)

\* ---- the environment as the started program reads it
\* One string of the block: the name ends at the first '=' that is not the
\* first code unit (names of hidden variables such as =C: begin with '=').
env_entry(str) ==
    LET eqs == {i \in 2..Len(str) : str[i] = EQUALS}
    IN IF eqs = {} THEN <<str, <<>>>>
       ELSE LET at == CHOOSE i \in eqs : \A j \in eqs : i <= j
            IN <<SubSeq(str, 1, at - 1), SubSeq(str, at + 1, Len(str))>>

\* The NUL-terminated strings of the block from index i on, up to the
\* empty string that ends it.
RECURSIVE environment_strings(_, _)
environment_strings(blk, i) ==
    IF i > Len(blk) \/ blk[i] = NUL THEN <<>>
    ELSE LET end == scan(blk, i, {NUL})
         IN <<env_entry(SubSeq(blk, i, end - 1))>> \o environment_strings(blk, end + 1)

EnvFrame ==
    UNCHANGED <<env, pc, result, handlerRet, forked, handlerInvoked, allowList,
                childPc, dirChanged, confined, swept, proc, sigPending, killed,
                exit_code, fds, calls, taken, termRets, killsSent, esLast,
                parentFds, childFds, kernel, ruleset, opened, accepted, noopVars,
                quoteVars, childVars, sideVars>>

\* encode_env_strings, called on a slice.
EncodeEnvStrings ==
    /\ ePc = "start"
    /\ block' = encode_env_strings(pairs)
    /\ ePc' = IF block'.ok THEN "encoded" ELSE "failed"
    /\ UNCHANGED <<environ, pairs, decoded>>
    /\ EnvFrame

\* The started program reads its environment.
ProgramReadsEnvironment ==
    /\ ePc = "encoded"
    /\ decoded' = environment_strings(block.ret, 1)
    /\ ePc' = "read"
    /\ UNCHANGED <<environ, pairs, block>>
    /\ EnvFrame

\* ------------------------------------------------------- Windows launch
\* Names and texts the launch writes, as UTF-16 code units.
COMMAND_COM == <<99, 111, 109, 109, 97, 110, 100, 46, 99, 111, 109>>
LAUNCH_HANDLE_ENV == <<83, 65, 78, 68, 66, 79, 88, 95, 72, 65, 78, 68, 76, 69, 83>>
SystemRoot == <<83, 121, 115, 116, 101, 109, 82, 111, 111, 116>>
Windir == <<87, 105, 110, 100, 105, 114>>
Path == <<80, 97, 116, 104>>
SYSTEMROOT == <<83, 89, 83, 84, 69, 77, 82, 79, 79, 84>>
WINDIR == <<87, 73, 78, 68, 73, 82>>
PATH == <<80, 65, 84, 72>>
LOCALAPPDATA == <<76, 79, 67, 65, 76, 65, 80, 80, 68, 65, 84, 65>>
TEMP == <<84, 69, 77, 80>>
TMP == <<84, 77, 80>>
SEMICOLON == <<59>>
SYSTEM32 == <<92, 83, 121, 115, 116, 101, 109, 51, 50>>
TEMP_FOLDER == <<92, 84, 101, 109, 112>>

\* What can go wrong on the host during a launch, one thing at a time:
\* CreatePipe, GetStdHandle, the token and the AppContainer, its folder,
\* CreateProcessAsUserW, CreateJobObjectW, SetInformationJobObject,
\* AssignProcessToJobObject.
HostFailures ==
    {"none", "pipe", "console", "token", "folder", "spawn", "job", "limits", "assign"}

\* ---- fd.rs
StdIoFd_None == [NoWinFd EXCEPT !.kind = "None"]

\* WinFd::new: the parent keeps one end, the other is for the child.
WinFd_new(direction) ==
    [kind |-> "Pipe", parent_handle |-> TRUE, child_handle |-> TRUE,
     direction |-> direction]

\* WinFd::from_std: a duplicate of the parent's own handle, for the child only.
from_std(fd) ==
    [kind |-> "Pipe", parent_handle |-> FALSE, child_handle |-> TRUE,
     direction |-> IF fd = 0 THEN "ToChild" ELSE "FromChild"]

\* as_env_val: the descriptor number and a separator; the number of the
\* handle is left out.
as_env_val(fd, v) == IF v.child_handle THEN <<48 + fd>> \o SEMICOLON ELSE <<>>

\* ---- create_fds
StdIo(mode) ==
    CASE mode = "Null" -> "None"
      [] mode = "KeepInChild" -> "PassThrough"
      [] OTHER -> "Pipe"

NoStdIoSet ==
    [ok |-> TRUE, stdin |-> "None", stdout |-> "None", stderr |-> "None",
     others |-> [fd \in OtherFds |-> NoWinFd]]

NoWinFdSet ==
    [ok |-> FALSE, stdin |-> NoWinFd, stdout |-> NoWinFd, stderr |-> NoWinFd,
     others |-> [fd \in OtherFds |-> NoWinFd]]

\* create_fds that lets a descriptor other than 0, 1 and 2 pass through.
RECURSIVE create_fds_loop_pass_through(_, _, _, _)
create_fds_loop_pass_through(src, fd, acc, pipe_ok) ==
    IF fd \notin WinFdNumbers THEN acc
    ELSE LET mode == src[fd]
         IN IF fd = 0
            THEN IF mode = "FromChild" THEN [acc EXCEPT !.ok = FALSE]
                 ELSE create_fds_loop_pass_through(
                          src, fd + 1, [acc EXCEPT !.stdin = StdIo(mode)], pipe_ok)
            ELSE IF fd = 1
            THEN IF mode = "ToChild" THEN [acc EXCEPT !.ok = FALSE]
                 ELSE create_fds_loop_pass_through(
                          src, fd + 1, [acc EXCEPT !.stdout = StdIo(mode)], pipe_ok)
            ELSE IF fd = 2
            THEN IF mode = "ToChild" THEN [acc EXCEPT !.ok = FALSE]
                 ELSE create_fds_loop_pass_through(
                          src, fd + 1, [acc EXCEPT !.stderr = StdIo(mode)], pipe_ok)
            ELSE IF mode = "Null"
            THEN create_fds_loop_pass_through(src, fd + 1, acc, pipe_ok)
            ELSE IF mode = "KeepInChild"
            THEN create_fds_loop_pass_through(
                     src, fd + 1, [acc EXCEPT !.others[fd] = from_std(fd)], pipe_ok)
            ELSE IF ~pipe_ok THEN [acc EXCEPT !.ok = FALSE]
            ELSE create_fds_loop_pass_through(
                     src, fd + 1, [acc EXCEPT !.others[fd] = WinFd_new(mode)], pipe_ok)

\* The loop of create_fds over src.modes() from descriptor fd on.  A
\* descriptor the FdSet leaves out is one it marks Null.
RECURSIVE create_fds_loop(_, _, _, _)
create_fds_loop(src, fd, acc, pipe_ok) ==
    IF fd \notin WinFdNumbers THEN acc
    ELSE LET mode == src[fd]
         IN IF fd = 0
            THEN IF mode = "FromChild" THEN [acc EXCEPT !.ok = FALSE]
                 ELSE create_fds_loop(
                          src, fd + 1, [acc EXCEPT !.stdin = StdIo(mode)], pipe_ok)
            ELSE IF fd = 1
            THEN IF mode = "ToChild" THEN [acc EXCEPT !.ok = FALSE]
                 ELSE create_fds_loop(
                          src, fd + 1, [acc EXCEPT !.stdout = StdIo(mode)], pipe_ok)
            ELSE IF fd = 2
            THEN IF mode = "ToChild" THEN [acc EXCEPT !.ok = FALSE]
                 ELSE create_fds_loop(
                          src, fd + 1, [acc EXCEPT !.stderr = StdIo(mode)], pipe_ok)
            ELSE IF mode = "Null"
            THEN create_fds_loop(src, fd + 1, acc, pipe_ok)
            ELSE IF mode = "KeepInChild" THEN [acc EXCEPT !.ok = FALSE]
            ELSE IF ~pipe_ok THEN [acc EXCEPT !.ok = FALSE]
            ELSE create_fds_loop(
                     src, fd + 1, [acc EXCEPT !.others[fd] = WinFd_new(mode)], pipe_ok)

\* One of stdin, stdout and stderr of WinFdSet::new.
StdIoFd(fd, io) ==
    CASE io = "None" -> StdIoFd_None
      [] io = "Pipe" -> WinFd_new(IF fd = 0 THEN "ToChild" ELSE "FromChild")
      [] OTHER -> from_std(fd)

\* WinFdSet::new: the pipes and the duplicates of standard I/O.
WinFdSet_new(stdio, fails) ==
    LET asked == {stdio.stdin, stdio.stdout, stdio.stderr}
    IN IF \/ fails = "pipe" /\ "Pipe" \in asked
          \/ fails = "console" /\ "PassThrough" \in asked
       THEN NoWinFdSet
       ELSE [ok |-> TRUE,
             stdin |-> StdIoFd(0, stdio.stdin),
             stdout |-> StdIoFd(1, stdio.stdout),
             stderr |-> StdIoFd(2, stdio.stderr),
             others |-> stdio.others]

create_fds(src, fails) ==
    LET looped == create_fds_loop(src, 0, NoStdIoSet, fails # "pipe")
    IN IF looped.ok THEN WinFdSet_new(looped, fails) ELSE NoWinFdSet

\* SANDBOX_HANDLES: as_env_val of the others, in their order.
RECURSIVE env_handles(_, _)
env_handles(others, fd) ==
    IF fd \notin OtherFds THEN <<>>
    ELSE as_env_val(fd, others[fd]) \o env_handles(others, fd + 1)

\* The WinFd of logical descriptor fd in a WinFdSet or a WindowsChild.
WinFdOf(f, fd) ==
    CASE fd = 0 -> f.stdin
      [] fd = 1 -> f.stdout
      [] fd = 2 -> f.stderr
      [] OTHER -> f.others[fd]

\* The handles launch_restricted lets the child inherit.
allowed_handles(f) == {fd \in WinFdNumbers : WinFdOf(f, fd).child_handle}

\* ---- the environment of the launch
\* HashMap::insert.
insert(m, k, v) == [x \in (DOMAIN m) \cup {k} |-> IF x = k THEN v ELSE m[x]]

\* The entries of a hash map in one of the orders it can iterate in: by
\* ascending key, or by descending key when flip is set.
RECURSIVE into_iter(_, _)
into_iter(m, flip) ==
    IF DOMAIN m = {} THEN <<>>
    ELSE LET k == CHOOSE x \in DOMAIN m :
                    \A o \in (DOMAIN m) \ {x} : IF flip THEN Less(o, x) ELSE Less(x, o)
         IN <<<<k, m[k]>>>> \o into_iter([x \in (DOMAIN m) \ {k} |-> m[x]], flip)

\* A vector of pairs collected into a hash map: a later pair replaces an
\* earlier one of the same key.
collect(vec) ==
    [k \in {vec[i][1] : i \in 1..Len(vec)} |->
        vec[CHOOSE i \in 1..Len(vec) :
               vec[i][1] = k /\ \A j \in (i + 1)..Len(vec) : vec[j][1] # k][2]]

\* The map with_default_environ encodes: the three defaults, then the
\* three folders of the AppContainer profile.
default_environ(e, m) ==
    LET path == e.system_root \o SEMICOLON \o e.system_root \o SYSTEM32
        temp_folder == e.app_folder \o TEMP_FOLDER
        m1 == IF \E k \in DOMAIN m : to_uppercase(k) = SYSTEMROOT THEN m
              ELSE insert(m, SystemRoot, e.system_root)
        m2 == IF \E k \in DOMAIN m1 : to_uppercase(k) = WINDIR THEN m1
              ELSE insert(m1, Windir, e.windir)
        m3 == IF \E k \in DOMAIN m2 : to_uppercase(k) = PATH THEN m2
              ELSE insert(m2, Path, path)
    IN insert(insert(insert(m3, LOCALAPPDATA, e.app_folder), TEMP, temp_folder),
              TMP, temp_folder)

\* with_default_environ; app.folder_path() can fail.
with_default_environ(e, m) ==
    IF e.fails = "folder" THEN NoBlock
    ELSE encode_env_strings(into_iter(default_environ(e, m), e.flip))

\* ---- jail.rs: launch_restricted
\* What a launch that created no process leaves behind.
NotLaunched(ret, line) ==
    [ret |-> ret, created |-> 0, cmdline |-> line, block |-> NoBlock,
     slice |-> <<>>, fds |-> NoWinFdSet, proc |-> NoWinProc, handles |-> NoHandles,
     steps |-> <<>>]

\* The limits launch_restricted puts on the job.
JobLimits == {"KILL_ON_JOB_CLOSE", "ACTIVE_PROCESS"}
ActiveProcessLimit == 1
NoJob == [limits |-> {}, active_process_limit |-> 0]

\* The OS before launch_restricted has called it for the new process.
BeforeCreation ==
    [call |-> "none", ok |-> TRUE, proc |-> NoWinProc, handles |-> NoHandles,
     job |-> NoJob]

\* The call that fails on this host.
failing_call(fails) ==
    CASE fails = "spawn" -> "CreateProcessAsUserW"
      [] fails = "job" -> "CreateJobObjectW"
      [] fails = "limits" -> "SetInformationJobObject"
      [] fails = "assign" -> "AssignProcessToJobObject"
      [] OTHER -> "none"

\* launch_restricted with the thread resumed before the job exists.
job_calls_resume_first ==
    <<"CreateProcessAsUserW", "ResumeThread", "CreateJobObjectW",
      "SetInformationJobObject", "AssignProcessToJobObject">>

\* The calls launch_restricted makes for the new process, in its order.
job_calls ==
    <<"CreateProcessAsUserW", "CreateJobObjectW", "SetInformationJobObject",
      "AssignProcessToJobObject", "ResumeThread">>

\* One call and what it leaves in the OS.  The process is created with
\* CREATE_SUSPENDED; the result of ResumeThread is not looked at.
os_call(s, call, failing) ==
    IF call = failing THEN [s EXCEPT !.call = call, !.ok = FALSE]
    ELSE CASE call = "CreateProcessAsUserW" ->
                [s EXCEPT !.call = call,
                          !.proc = [st |-> "suspended", job |-> FALSE, code |-> 0],
                          !.handles.process = OpenHandle,
                          !.handles.thread = OpenHandle]
           [] call = "CreateJobObjectW" ->
                [s EXCEPT !.call = call, !.handles.job = OpenHandle]
           [] call = "SetInformationJobObject" ->
                [s EXCEPT !.call = call,
                          !.job = [limits |-> JobLimits,
                                   active_process_limit |-> ActiveProcessLimit]]
           [] call = "AssignProcessToJobObject" ->
                [s EXCEPT !.call = call, !.proc.job = TRUE]
           [] call = "ResumeThread" ->
                [s EXCEPT !.call = call,
                          !.proc.st = IF @ = "suspended" THEN "running" ELSE @]

\* The OS after each call, up to the first call that fails: the `?`
\* returns there, with nothing undone.
RECURSIVE launch_steps(_, _, _, _)
launch_steps(list, i, s, failing) ==
    IF i > Len(list) THEN <<>>
    ELSE LET next == os_call(s, list[i], failing)
         IN IF next.ok THEN <<next>> \o launch_steps(list, i + 1, next, failing)
            ELSE <<next>>

\* launch_restricted: the process is created suspended, put into a job
\* and resumed.  A step that fails returns at once.
launch_restricted(e, line, f, m) ==
    IF allowed_handles(f) = {} THEN NotLaunched("JailSetup", line)
    ELSE IF e.fails = "token" THEN NotLaunched("JailSetup", line)
    ELSE LET environment == with_default_environ(e, m)
             slice == into_iter(default_environ(e, m), e.flip)
             steps == launch_steps(job_calls, 1, BeforeCreation, failing_call(e.fails))
             last == steps[Len(steps)]
         IN IF ~environment.ok THEN NotLaunched("JailSetup", line)
            ELSE IF last.proc.st = "none"
                 THEN [NotLaunched("JailSetup", line) EXCEPT !.steps = steps]
            ELSE [ret |-> IF last.ok THEN "Ok" ELSE "JailSetup",
                  created |-> 1, cmdline |-> line, block |-> environment,
                  slice |-> slice, fds |-> IF last.ok THEN f ELSE NoWinFdSet,
                  proc |-> last.proc, handles |-> last.handles, steps |-> steps]

\* ---- launch.rs: launch_child
\* The environment launch_child hands to launch_restricted: the caller's
\* entries, then SANDBOX_HANDLES.  The vector is encoded once on the way,
\* which can fail, and reaches with_default_environ as a map.
launch_child(e, a, m) ==
    IF ~e.cmd THEN NotLaunched("Io", NoCmdline)
    ELSE LET line == quote_arguments(COMMAND_COM, a)
             f == create_fds(e.fds, e.fails)
             vec == into_iter(m, e.flip)
                        \o <<<<LAUNCH_HANDLE_ENV, env_handles(f.others, 3)>>>>
         IN IF ~line.ok THEN NotLaunched("JailSetup", line)
            ELSE IF ~f.ok THEN NotLaunched("JailSetup", line)
            ELSE IF ~e.cwd THEN NotLaunched("Io", line)
            ELSE IF ~encode_env_strings(vec).ok THEN NotLaunched("JailSetup", line)
            ELSE launch_restricted(e, line, f, collect(vec))

\* ---- the launch and the calls on the WindowsChild
LinuxFrame ==
    UNCHANGED <<env, pc, result, handlerRet, forked, handlerInvoked, allowList,
                childPc, dirChanged, confined, swept, proc, sigPending, killed,
                exit_code, fds, calls, taken, termRets, killsSent, esLast,
                parentFds, childFds, kernel, ruleset, opened, accepted, noopVars,
                sideVars>>


\* launch_child, and WindowsChild::new on what it launched.
WindowsLaunchChild ==
    /\ wPc = "start"
    /\ LET launched == launch_child(wenv, args, environ)
       IN /\ wRet' = launched.ret
          /\ wPc' = IF launched.ret = "Ok" THEN "launched" ELSE "failed"
          /\ created' = created + launched.created
          /\ cmdline' = launched.cmdline
          /\ pairs' = launched.slice
          /\ block' = launched.block
          /\ ePc' = IF launched.ret = "Ok" THEN "encoded" ELSE "failed"
          /\ wchild' = [stdin |-> launched.fds.stdin, stdout |-> launched.fds.stdout,
                        stderr |-> launched.fds.stderr, others |-> launched.fds.others]
          /\ owners' = IF launched.ret = "Ok" THEN [owners EXCEPT ![0] = "live"] ELSE owners
          /\ handles' = launched.handles
          /\ wproc' = launched.proc
          /\ wsteps' = launched.steps
    /\ UNCHANGED <<cmd, args, argv, qPc, environ, decoded, wenv, mutable, wlast>>
    /\ LinuxFrame

WindowsChildFrame ==
    /\ UNCHANGED <<quoteVars, envVars, wenv, wRet, created, wsteps>>
    /\ LinuxFrame

\* WindowsChild::state: a clone of the ProcessState.
WindowsChildState ==
    /\ wPc = "launched"
    /\ owners[0] = "live"
    /\ \E o \in DOMAIN owners :
         /\ owners[o] = "none"
         /\ \A p \in DOMAIN owners : owners[p] = "none" => o <= p
         /\ owners' = [owners EXCEPT ![o] = "live"]
         /\ wlast' = [NoCall EXCEPT !.op = "state", !.arg = o]
    /\ UNCHANGED <<wPc, wchild, mutable, handles, wproc>>
    /\ WindowsChildFrame

\* The program ends by itself.
WindowsProcessExits ==
    /\ wproc.st = "running"
    /\ \E c \in WinExitCodes : wproc' = [wproc EXCEPT !.st = "exited", !.code = c]
    /\ UNCHANGED <<wPc, wchild, mutable, owners, handles, wlast>>
    /\ WindowsChildFrame

\* A process that was terminated with exit_code, if it was still at work.
Terminated(p, c) ==
    IF p.st \in {"suspended", "running"} THEN [p EXCEPT !.st = "exited", !.code = c]
    ELSE p

\* ProcessState::terminate as its caller sees it, for each answer the job
\* handle can give: "open" is the job of the child, "invalid" is a closed
\* handle the system rejects, "foreign" is a closed handle whose number
\* names something else by now.
terminate(m, p, answer, c) ==
    IF m.terminated THEN [ret |-> "Ok", mutable |-> m, proc |-> p]
    ELSE IF answer = "invalid" THEN [ret |-> "Err", mutable |-> m, proc |-> p]
    ELSE [ret |-> "Ok", mutable |-> [m EXCEPT !.terminated = TRUE],
          proc |-> IF answer = "open" THEN Terminated(p, c) ELSE p]

\* ProcessState::exit_code, for each answer the process handle can give.
process_exit_code(m, p, answer) ==
    IF m.exit_code # NoCode THEN [ret |-> "Ok", code |-> m.exit_code, mutable |-> m]
    ELSE IF answer = "invalid" THEN [ret |-> "Err", code |-> NoCode, mutable |-> m]
    ELSE LET code == IF answer = "open" /\ p.st = "exited" /\ p.code # STILL_ACTIVE
                     THEN p.code ELSE NoCode
         IN [ret |-> "Ok", code |-> code, mutable |-> [m EXCEPT !.exit_code = code]]

\* The answers a handle can give to a call made with it.
Answers(h) == IF h.st = "open" THEN {"open"} ELSE {"invalid", "foreign"}

\* A call was made with the handle.
Used(h) == IF h.st = "open" THEN h ELSE [h EXCEPT !.stale = TRUE]

\* CloseHandle.
CloseHandle(h) ==
    IF h.st = "open" THEN [h EXCEPT !.st = "closed", !.closes = h.closes + 1]
    ELSE [h EXCEPT !.stale = TRUE, !.closes = h.closes + 1]

\* Child::terminate and ProcessState::terminate: owner 0 is the child, the
\* others are clones of its state.
WindowsTerminate(o) ==
    /\ owners[o] = "live"
    /\ \E answer \in Answers(handles.job) :
         LET t == terminate(mutable, wproc, answer, TERMINATE_EXIT_CODE)
         IN /\ mutable' = t.mutable
            /\ wproc' = t.proc
            /\ handles' = IF mutable.terminated THEN handles
                          ELSE [handles EXCEPT !.job = Used(handles.job)]
            /\ wlast' = [NoCall EXCEPT !.op = "terminate", !.arg = o, !.ret = t.ret]
    /\ UNCHANGED <<wPc, wchild, owners>>
    /\ WindowsChildFrame

\* Child::exit_status and ProcessState::exit_code.
WindowsExitStatus(o) ==
    /\ owners[o] = "live"
    /\ \E answer \in Answers(handles.process) :
         LET x == process_exit_code(mutable, wproc, answer)
         IN /\ mutable' = x.mutable
            /\ handles' = IF mutable.exit_code # NoCode THEN handles
                          ELSE [handles EXCEPT !.process = Used(handles.process)]
            /\ wlast' = [op |-> "exit_status", arg |-> o,
                         ret |-> IF x.code # NoCode THEN "Some" ELSE "None",
                         code |-> x.code]
    /\ UNCHANGED <<wPc, wchild, owners, wproc>>
    /\ WindowsChildFrame

\* Drop for ProcessState: terminate, whose result is ignored, then the
\* three handles are closed.  Closing the job ends what is left in it.
\* With owner 0 the WindowsChild goes, and its streams with it.
WindowsDrop(o) ==
    /\ owners[o] = "live"
    /\ \E answer \in Answers(handles.job) :
         LET t == terminate(mutable, wproc, answer, TERMINATE_EXIT_CODE)
             used == IF mutable.terminated THEN handles
                     ELSE [handles EXCEPT !.job = Used(handles.job)]
         IN /\ mutable' = t.mutable
            /\ wproc' = IF handles.job.st = "open" /\ wproc.job
                        THEN Terminated(t.proc, TERMINATE_EXIT_CODE) ELSE t.proc
            /\ handles' = [thread |-> CloseHandle(used.thread),
                           process |-> CloseHandle(used.process),
                           job |-> CloseHandle(used.job)]
    /\ owners' = [owners EXCEPT ![o] = "dropped"]
    /\ wchild' = IF o = 0
                 THEN [stdin |-> NoWinFd, stdout |-> NoWinFd, stderr |-> NoWinFd,
                       others |-> [fd \in OtherFds |-> NoWinFd]]
                 ELSE wchild
    /\ wPc' = IF o = 0 THEN "dropped" ELSE wPc
    /\ wlast' = [NoCall EXCEPT !.op = "drop", !.arg = o]
    /\ WindowsChildFrame

\* as_reader and as_writer: the parent handle is taken out first, then the
\* direction decides.
as_stream(v, direction) ==
    IF v.kind = "Pipe" /\ v.parent_handle /\ v.direction = direction
    THEN "Some" ELSE "None"

\* The WindowsChild without the WinFd of descriptor fd.
Taken(c, fd) ==
    CASE fd = 0 -> [c EXCEPT !.stdin = NoWinFd]
      [] fd = 1 -> [c EXCEPT !.stdout = NoWinFd]
      [] fd = 2 -> [c EXCEPT !.stderr = NoWinFd]
      [] OTHER -> [c EXCEPT !.others[fd] = NoWinFd]

\* WindowsChild::take_stream_from_child.
WindowsTakeStreamFromChild(fd) ==
    /\ owners[0] = "live"
    /\ wchild' = IF fd = 0 THEN wchild ELSE Taken(wchild, fd)
    /\ wlast' = [NoCall EXCEPT
                    !.op = "take_stream_from_child", !.arg = fd,
                    !.ret = IF fd = 0 THEN "None"
                            ELSE as_stream(WinFdOf(wchild, fd), "FromChild")]
    /\ UNCHANGED <<wPc, mutable, owners, handles, wproc>>
    /\ WindowsChildFrame

\* WindowsChild::take_stream_to_child.
WindowsTakeStreamToChild(fd) ==
    /\ owners[0] = "live"
    /\ wchild' = IF fd \in {1, 2} THEN wchild ELSE Taken(wchild, fd)
    /\ wlast' = [NoCall EXCEPT
                    !.op = "take_stream_to_child", !.arg = fd,
                    !.ret = IF fd \in {1, 2} THEN "None"
                            ELSE as_stream(WinFdOf(wchild, fd), "ToChild")]
    /\ UNCHANGED <<wPc, mutable, owners, handles, wproc>>
    /\ WindowsChildFrame

\* ----------------------------------------------------- the noop scenario
\* The host still holds its stream for logical descriptor fd.
ParentHolds(fd) == parentFds[parent_fd_of(env, fd)].kind = "pipe"

\* The child holds its ends of the pipes as long as it lives.
ChildHolds == proc.st = "running"

\* The pipe made for logical descriptor fd: ForkedFd::new makes one pipe
\* per ToChild/FromChild entry, in the order of the entries.
pipe_of(e, fd) ==
    LET i == CHOOSE k \in DOMAIN e.order : e.order[k] = fd
    IN Cardinality({j \in 1..i : e.fds[e.order[j]] \in StreamDirection})

\* Some process holds a descriptor on the write end of the pipe of the
\* FromChild descriptor fd: the child while it lives, or the host.
WriteEndHeld(fd) ==
    LET w == PipeDesc(pipe_of(env, fd), "write")
    IN \/ proc.st = "running" /\ \E n \in Descs : childFds[n] = w
       \/ \E n \in Descs : parentFds[n] = w

NoopLaunchFrame ==
    UNCHANGED <<env, forked, handlerInvoked, allowList, dirChanged, confined, swept,
                calls, taken, termRets, esLast, childFds, ruleset,
                kernel, opened, accepted, quoteVars, windowsVars, sideVars>>

\* What the test handler leaves alone while run_process is at work.
TestHandlerFrame ==
    /\ NoopLaunchFrame
    /\ UNCHANGED <<pc, result, handlerRet, childPc, progPc>>

\* What the test program leaves alone.
ProgramFrame ==
    /\ NoopLaunchFrame
    /\ UNCHANGED <<pc, result, handlerRet, sigPending, killed, exit_code, fds,
                   killsSent, parentFds, hPc, runRet, state>>

\* main, step 1: read_exact of one byte from stdin; the unwrap panics on
\* an end of file.
NoopRead ==
    /\ ChildAlive /\ childPc = "execd" /\ progPc = "read0"
    /\ pipes.to # <<>> \/ ~ParentHolds(0)
    /\ IF pipes.to # <<>>
       THEN /\ pipes' = [pipes EXCEPT !.to = Tail(@)]
            /\ progPc' = "write1"
            /\ UNCHANGED <<childPc, proc>>
       ELSE /\ ChildExit(ExitPanic)
            /\ progPc' = "done"
            /\ pipes' = pipes
    /\ ProgramFrame

\* main, steps 2 and 4: write_all of '1', then of '2', to stdout; the
\* unwrap panics when nobody holds the read end.
NoopWrite ==
    /\ ChildAlive /\ childPc = "execd" /\ progPc \in {"write1", "write2"}
    /\ IF ParentHolds(1)
       THEN /\ pipes' = [pipes EXCEPT
                           !.from = Append(@, IF progPc = "write1" THEN "1" ELSE "2")]
            /\ progPc' = IF progPc = "write1" THEN "write2" ELSE "exit"
            /\ UNCHANGED <<childPc, proc>>
       ELSE /\ ChildExit(ExitPanic)
            /\ progPc' = "done"
            /\ pipes' = pipes
    /\ ProgramFrame

\* main returns: exit status 0.
NoopExit ==
    /\ ChildAlive /\ childPc = "execd" /\ progPc = "exit"
    /\ ChildExit(ExitClean)
    /\ progPc' = "done"
    /\ pipes' = pipes
    /\ ProgramFrame

\* run_process: mark_handle_started, then the exit_status() check.
TestHandlerStart ==
    /\ pc = "handle" /\ hPc = "start"
    /\ LET r == LinuxChildState_exit_code(exit_code, proc)
       IN /\ exit_code' = r.exit_code
          /\ proc' = r.proc
          /\ IF r.ret # NoCode
             THEN hPc' = "finish" /\ runRet' = "Err"
             ELSE hPc' = "take_to" /\ runRet' = runRet
    /\ state' = [state EXCEPT !.handle_started = TRUE]
    /\ UNCHANGED <<killsSent, sigPending, killed, fds, parentFds, pipes>>
    /\ TestHandlerFrame

\* run_process: take_stream_to_child(0), then take_stream_from_child(1).
TestHandlerTake ==
    /\ pc = "handle" /\ hPc \in {"take_to", "take_from"}
    /\ LET fd == IF hPc = "take_to" THEN 0 ELSE 1
           r == IF hPc = "take_to" THEN take_stream_to_child(fds, 0)
                ELSE take_stream_from_child(fds, 1)
       IN /\ fds' = r.fds
          /\ parentFds' = after_take(parentFds, env, fds, fd, r.some)
          /\ IF r.some
             THEN hPc' = (IF hPc = "take_to" THEN "take_from" ELSE "write0")
                  /\ runRet' = runRet
             ELSE hPc' = "finish" /\ runRet' = "Err"
    /\ UNCHANGED <<killsSent, proc, sigPending, killed, exit_code, state, pipes>>
    /\ TestHandlerFrame

\* run_process: write_all of '0', drop(out), mark_initial_send.  The write
\* fails when no process holds the read end; out is dropped either way.
TestHandlerWrite ==
    /\ pc = "handle" /\ hPc = "write0"
    /\ IF ChildHolds
       THEN /\ pipes' = [pipes EXCEPT !.to = Append(@, "0")]
            /\ state' = [state EXCEPT !.sent_init = TRUE]
            /\ hPc' = "read1"
            /\ runRet' = runRet
       ELSE /\ hPc' = "finish" /\ runRet' = "Err"
            /\ UNCHANGED <<pipes, state>>
    /\ parentFds' = close(parentFds, parent_fd_of(env, 0))
    /\ UNCHANGED <<killsSent, proc, sigPending, killed, exit_code, fds>>
    /\ TestHandlerFrame

\* run_process: read_exact of '1' (mark_child_started), then of '2'
\* (mark_child_ended).  The read waits for a byte or for the end of file.
TestHandlerRead ==
    /\ pc = "handle" /\ hPc \in {"read1", "read2"}
    /\ pipes.from # <<>> \/ ~WriteEndHeld(1)
    /\ IF pipes.from # <<>> /\ Head(pipes.from) = (IF hPc = "read1" THEN "1" ELSE "2")
       THEN /\ state' = IF hPc = "read1" THEN [state EXCEPT !.read_start = TRUE]
                        ELSE [state EXCEPT !.read_end = TRUE]
            /\ hPc' = IF hPc = "read1" THEN "read2" ELSE "finish"
            /\ runRet' = IF hPc = "read1" THEN runRet ELSE "Ok"
       ELSE /\ hPc' = "finish" /\ runRet' = "Err"
            /\ state' = state
    /\ pipes' = [pipes EXCEPT !.from = IF @ = <<>> THEN @ ELSE Tail(@)]
    /\ UNCHANGED <<killsSent, proc, sigPending, killed, exit_code, fds, parentFds>>
    /\ TestHandlerFrame

\* handle: self.state.set_exit_code(child.exit_status())
TestHandlerExitStatus ==
    /\ pc = "handle" /\ hPc = "finish"
    /\ LET r == LinuxChildState_exit_code(exit_code, proc)
       IN /\ exit_code' = r.exit_code
          /\ proc' = r.proc
          /\ state' = IF r.ret # NoCode THEN [state EXCEPT !.exit_code = r.ret] ELSE state
          /\ hPc' = IF r.ret # NoCode THEN "return" ELSE "terminate"
    /\ UNCHANGED <<killsSent, sigPending, killed, fds, parentFds, pipes, runRet>>
    /\ TestHandlerFrame

\* handle: child.terminate()?, reached when exit_status() gave None.
TestHandlerTerminate ==
    /\ pc = "handle" /\ hPc = "terminate"
    /\ \E r \in LinuxChildState_kill(killed, exit_code, proc, sigPending) :
         /\ killed' = r.killed
         /\ exit_code' = r.exit_code
         /\ proc' = r.proc
         /\ sigPending' = r.pending
         /\ killsSent' = killsSent + r.sent
         /\ runRet' = IF r.ok THEN runRet ELSE "Err"
    /\ hPc' = "return"
    /\ UNCHANGED <<fds, parentFds, pipes, state>>
    /\ TestHandlerFrame

\* handle returns ret, or the error of terminate().
TestHandlerReturns ==
    /\ pc = "handle" /\ hPc = "return"
    /\ handle_returned(runRet)
    /\ hPc' = "done"
    /\ UNCHANGED <<runRet, state, progPc, pipes>>

\* ------------------------------------------------- the file-read scenario
\* The file the test made for the program to read: none of the files the
\* program was launched with.
TempFile == <<"abs", MaxLibs + 1>>

\* file-read main, steps 2 and 4: write_all and flush of '1', then of
\* '2', to stdout; the unwrap panics when nobody holds the read end.
FileReadWrite ==
    /\ ChildAlive /\ childPc = "execd" /\ progPc \in {"write1", "write2"}
    /\ IF ParentHolds(1)
       THEN /\ pipes' = [pipes EXCEPT
                           !.from = Append(@, IF progPc = "write1" THEN "1" ELSE "2")]
            /\ progPc' = IF progPc = "write1" THEN "open" ELSE "exit"
            /\ UNCHANGED <<childPc, proc>>
       ELSE /\ ChildExit(ExitPanic)
            /\ progPc' = "done"
            /\ pipes' = pipes
    /\ ProgramFrame

\* file-read main, step 3: read_to_string of the file its argument names,
\* the test's temporary file or a file the program was launched with; the
\* unwrap panics when the open is refused.
FileReadOpen ==
    /\ ChildAlive /\ childPc = "execd" /\ progPc = "open"
    /\ \E filename \in {TempFile} \cup {allowList[i] : i \in DOMAIN allowList} :
         LET granted == ~confined \/ landlock_allows_fs(ruleset, filename, "ReadFile")
         IN /\ opened' = [path |-> filename, right |-> "ReadFile", granted |-> granted]
            /\ IF granted
               THEN progPc' = "write2" /\ UNCHANGED <<childPc, proc>>
               ELSE ChildExit(ExitPanic) /\ progPc' = "done"
    /\ UNCHANGED <<env, forked, handlerInvoked, allowList, dirChanged, confined, swept,
                   calls, taken, termRets, esLast, childFds, ruleset, kernel, accepted,
                   quoteVars, windowsVars, sideVars, pc, result, handlerRet,
                   sigPending, killed, exit_code, fds, killsSent, parentFds, hPc,
                   runRet, state, pipes>>

\* ------------------------------------ threads on the supervisor state
\* LinuxChildState is Clone and its two fields are Arc<Mutex<..>>: the
\* LinuxChild of the handler and the clone sandbox_child keeps share the
\* killed flag and the cached exit code, each behind its own mutex.

\* exit_code() taking the killed mutex after the exit_code mutex.
exit_code_locks_then_killed == <<"exit_code", "killed">>

\* The mutexes kill() locks, in its order, for the whole call.
kill_locks == <<"killed", "exit_code">>

\* The mutex exit_code() locks for the whole call.
exit_code_locks == <<"exit_code">>

lock_order(call) == IF call = "kill" THEN kill_locks ELSE exit_code_locks

\* The mutexes whose guard thread t holds.
held(t) == {l \in DOMAIN locks : locks[l] = t}

\* Guards are dropped when the call returns.
release(t) == [l \in DOMAIN locks |-> IF locks[l] = t THEN 0 ELSE locks[l]]

ThreadFrame ==
    UNCHANGED <<env, pc, result, handlerRet, forked, handlerInvoked, allowList,
                childPc, dirChanged, confined, swept, childFds, ruleset, fds, taken,
                esLast, parentFds, kernel, opened, accepted, noopVars, quoteVars,
                windowsVars, eventVars>>

\* A thread enters terminate() on its handle of the child.
ThreadTerminate(t) ==
    /\ InHandler /\ thr[t].pc = "idle"
    /\ thr' = [thr EXCEPT ![t] = [Idle EXCEPT !.call = "kill", !.pc = "lock"]]
    /\ calls' = calls + 1
    /\ UNCHANGED <<proc, sigPending, killed, exit_code, termRets, killsSent, locks,
                   esRets, lateKills>>
    /\ ThreadFrame

\* A thread enters exit_status() on its handle of the child.
ThreadExitStatus(t) ==
    /\ InHandler /\ thr[t].pc = "idle"
    /\ thr' = [thr EXCEPT ![t] = [Idle EXCEPT !.call = "exit_code", !.pc = "lock"]]
    /\ calls' = calls + 1
    /\ UNCHANGED <<proc, sigPending, killed, exit_code, termRets, killsSent, locks,
                   esRets, lateKills>>
    /\ ThreadFrame

\* mutex.lock(): the thread waits until the next mutex of its call is free.
ThreadLock(t) ==
    /\ thr[t].pc = "lock"
    /\ LET order == lock_order(thr[t].call)
           n == Cardinality(held(t)) + 1
       IN /\ locks[order[n]] = 0
          /\ locks' = [locks EXCEPT ![order[n]] = t]
          /\ thr' = [thr EXCEPT ![t].pc = IF n = Len(order) THEN "body" ELSE "lock"]
    /\ UNCHANGED <<proc, sigPending, killed, exit_code, termRets, killsSent, calls,
                   esRets, lateKills>>
    /\ ThreadFrame

\* LinuxChildState::kill with both guards held, up to its return.
ThreadKill(t) ==
    /\ thr[t].pc = "body" /\ thr[t].call = "kill"
    /\ \E r \in LinuxChildState_kill(killed, exit_code, proc, sigPending) :
         /\ killed' = r.killed
         /\ exit_code' = r.exit_code
         /\ proc' = r.proc
         /\ sigPending' = r.pending
         /\ killsSent' = killsSent + r.sent
         /\ lateKills' = lateKills + (IF ~killed /\ proc.st = "reaped" THEN 1 ELSE 0)
         /\ termRets' = Append(termRets, [ok |-> r.ok, code |-> r.code,
                                            before |-> proc.st, sent |-> r.sent])
         /\ thr' = [thr EXCEPT ![t] =
                      [call |-> "kill", pc |-> "idle", code |-> r.code,
                       ret |-> IF killed THEN (IF r.ok THEN "Cached" ELSE "Bug")
                               ELSE IF r.ok THEN "Ok" ELSE "Err"]]
    /\ locks' = release(t)
    /\ UNCHANGED <<calls, esRets>>
    /\ ThreadFrame

\* LinuxChildState::exit_code with its guard held, up to its return.
ThreadExitCode(t) ==
    /\ thr[t].pc = "body" /\ thr[t].call = "exit_code"
    /\ LET r == LinuxChildState_exit_code(exit_code, proc)
       IN /\ exit_code' = r.exit_code
          /\ proc' = r.proc
          /\ esRets' = Append(esRets, r.ret)
          /\ thr' = [thr EXCEPT ![t] =
                       [call |-> "exit_code", pc |-> "idle", code |-> r.ret,
                        ret |-> IF r.ret # NoCode THEN "Some" ELSE "None"]]
    /\ locks' = release(t)
    /\ UNCHANGED <<sigPending, killed, termRets, killsSent, calls, lateKills>>
    /\ ThreadFrame

\* ------------------------------------------------------ comm: event packets
\* Chunk length of the payload writes.
BUFFER_SIZE == 8 * 1024

\* u32::try_from(size), which fails from 2^32 on, then to_be_bytes.
size_to_octets(size) ==
    IF size \div 2^16 >= 2^16 THEN [ok |-> FALSE, ret |-> <<>>]
    ELSE [ok |-> TRUE,
          ret |-> <<(size \div 2^24) % 256, (size \div 2^16) % 256,
                    (size \div 2^8) % 256, size % 256>>]

\* payload.as_chunks::<BUFFER_SIZE>(): the full chunks, then the rest.
RECURSIVE as_chunks(_)
as_chunks(payload) ==
    IF Len(payload) < BUFFER_SIZE THEN <<payload>>
    ELSE <<SubSeq(payload, 1, BUFFER_SIZE)>>
             \o as_chunks(SubSeq(payload, BUFFER_SIZE + 1, Len(payload)))

\* std::io::Write::write_all on a writer that keeps what it is given until
\* it is flushed.  fail_at is the call that errs (0: none).
write_all(w, buf, n) ==
    IF w.fail_at = n /\ buf # <<>> THEN [ok |-> FALSE, w |-> w]
    ELSE [ok |-> TRUE, w |-> [w EXCEPT !.buffered = @ \o buf]]

\* The write_all calls of EventWriter::write from the n-th on; the first
\* one that errs ends the call.
RECURSIVE write_pieces(_, _, _)
write_pieces(w, pieces, n) ==
    IF n > Len(pieces) THEN [ret |-> "Ok", w |-> w]
    ELSE LET r == write_all(w, pieces[n], n)
         IN IF r.ok THEN write_pieces(r.w, pieces, n + 1)
            ELSE [ret |-> "Err", w |-> r.w]

\* EventWriter::write
EventWriter_write(w, p) ==
    IF p.header.size # Len(p.payload) THEN [ret |-> "InvalidInput", w |-> w]
    ELSE LET header_size == size_to_octets(p.header.size)
         IN IF ~header_size.ok THEN [ret |-> "InvalidInput", w |-> w]
            ELSE write_pieces(w, <<p.header.packet_id, p.header.cmd_packet_id,
                                   p.header.event_id, header_size.ret>>
                                      \o as_chunks(p.payload), 1)

EventFrame ==
    UNCHANGED <<env, pc, result, handlerRet, forked, handlerInvoked, allowList,
                childPc, dirChanged, confined, swept, proc, sigPending, killed,
                exit_code, fds, calls, taken, termRets, killsSent, esLast,
                parentFds, childFds, kernel, ruleset, opened, accepted, noopVars,
                quoteVars, windowsVars, supervisorVars>>

\* EventWriter::new().write(&mut out, &packet)
EventWrite ==
    /\ evRet = "none"
    /\ LET r == EventWriter_write(writer, packet)
       IN /\ writer' = r.w
          /\ evRet' = r.ret
    /\ UNCHANGED packet
    /\ EventFrame

\* ------------------------------------------------------- specifications
NextLaunch ==
    \/ SandboxChildLaunch
    \/ ChildAfterFork
    \/ ChildChdir
    \/ ChildRestrict
    \/ ChildCloseFds
    \/ ChildExec

Next ==
    \/ SandboxChildLaunch
    \/ ChildAfterFork
    \/ ChildChdir
    \/ ChildRestrict
    \/ ChildCloseFds
    \/ ChildExec
    \/ ChildProgramExit
    \/ ChildDiesOfSignal
    \/ TakeStreamFromChild
    \/ TakeStreamToChild
    \/ ExitStatus
    \/ Terminate
    \/ HandlerReturns
    \/ ChildExitCode
    \/ ChildExitKill

\* The launch followed through the handler and the return of sandbox_child.
Spec == Init /\ [][Next]_vars

\* The launch alone, over every dependency tree, up to the child's exec.
SpecLaunch == InitLaunch /\ [][NextLaunch]_vars

\* The launch alone, descriptor by descriptor, over every FdSet and host.
SpecFd == InitFd /\ [][NextLaunch]_vars

NextJail ==
    \/ SandboxChildLaunch
    \/ ChildAfterFork
    \/ ChildChdir
    \/ ChildRestrict
    \/ ChildCloseFds
    \/ ChildExec
    \/ ChildOpen
    \/ ChildConnect

NextNoop ==
    \/ SandboxChildLaunch
    \/ ChildAfterFork
    \/ ChildChdir
    \/ ChildRestrict
    \/ ChildCloseFds
    \/ ChildExec
    \/ ChildDiesOfSignal
    \/ NoopRead
    \/ NoopWrite
    \/ NoopExit
    \/ TestHandlerStart
    \/ TestHandlerTake
    \/ TestHandlerWrite
    \/ TestHandlerRead
    \/ TestHandlerExitStatus
    \/ TestHandlerTerminate
    \/ TestHandlerReturns
    \/ ChildExitCode

\* The noop test: the test handler against the noop program.
SpecNoop == InitNoop /\ [][NextNoop]_vars

\* Any command with any arguments, and the Linux back end at rest.
InitQuote ==
    /\ InitLinux({CHOOSE e \in Envs(ProbeAnalyses, PlainFdSets) : TRUE}, {AbiLatest})
    /\ \E c \in OsStrings(MaxLen) :
         /\ cmd = c
         /\ args \in ArgLists(MaxLen - Len(c), MaxArgs)
    /\ cmdline = NoCmdline
    /\ argv = <<>>
    /\ qPc = "start"
    /\ InitWindowsVars

NextQuote ==
    \/ QuoteArguments
    \/ ProgramParsesCommandLine

\* The Windows command line: quoted by the launch, parsed by the program.
SpecQuote == InitQuote /\ [][NextQuote]_vars

\* Any slice of pairs, and everything else at rest.
InitEnvBlock ==
    /\ InitLinux({CHOOSE e \in Envs(ProbeAnalyses, PlainFdSets) : TRUE}, {AbiLatest})
    /\ InitQuoteVars
    /\ environ = <<>>
    /\ pairs \in PairLists(MaxLen, MaxEnv)
    /\ block = NoBlock
    /\ decoded = <<>>
    /\ ePc = "start"
    /\ InitChildVars

NextEnvBlock ==
    \/ EncodeEnvStrings
    \/ ProgramReadsEnvironment

\* The Windows environment block: encoded by the launch, read by the program.
SpecEnvBlock == InitEnvBlock /\ [][NextEnvBlock]_vars

\* Launches on Windows with any FdSet, with or without the executable and
\* the working directory, on hosts where one step of the launch can fail.
WinLaunchEnvs ==
    [cmd : BOOLEAN, cwd : BOOLEAN, fds : [WinFdNumbers -> FdMode],
     fails : HostFailures, flip : {FALSE}, system_root : {<<UPPER_A>>},
     windir : {<<UPPER_A>>}, app_folder : {<<UPPER_B>>}]

InitWinLaunch ==
    /\ InitLinux({CHOOSE e \in Envs(ProbeAnalyses, PlainFdSets) : TRUE}, {AbiLatest})
    /\ InitQuoteVars
    /\ InitEnvVars
    /\ wenv \in WinLaunchEnvs
    /\ wPc = "start"
    /\ wRet = "none"
    /\ created = 0
    /\ wchild = [stdin |-> NoWinFd, stdout |-> NoWinFd, stderr |-> NoWinFd,
                 others |-> [fd \in OtherFds |-> NoWinFd]]
    /\ mutable = [terminated |-> FALSE, exit_code |-> NoCode]
    /\ owners = [o \in 0..MaxClones |-> "none"]
    /\ handles = NoHandles
    /\ wproc = NoWinProc
    /\ wlast = NoCall
    /\ wsteps = <<>>

NextWinLaunch == WindowsLaunchChild

\* The names the launch adds to an environment, each as the launch writes
\* it, in capitals and in small letters, and a name it does not know.
CallerKeys ==
    UNION {{name, to_uppercase(name), to_lowercase(name)} :
             name \in {SystemRoot, Windir, Path, LOCALAPPDATA, TEMP, TMP,
                       LAUNCH_HANDLE_ENV}}
        \cup {<<LETTER>>}

\* Sets of at most n of these names.
RECURSIVE KeySets(_)
KeySets(n) ==
    IF n = 0 THEN {{}}
    ELSE KeySets(n - 1) \cup {s \cup {k} : s \in KeySets(n - 1), k \in CallerKeys}

\* LaunchEnv.env: environments of at most n entries.
CallerEnvirons(n) == {[k \in s |-> <<LETTER>>] : s \in KeySets(n)}

\* Launches with a sound FdSet and any such environment, on hosts with and
\* without SYSTEMROOT, with and without the folder of the AppContainer.
WinEnvironEnvs ==
    [cmd : {TRUE}, cwd : {TRUE},
     fds : {[fd \in WinFdNumbers |->
               IF fd = 0 THEN "ToChild" ELSE IF fd = 1 THEN "FromChild" ELSE "Null"]},
     fails : {"none", "folder"}, flip : BOOLEAN,
     system_root : {<<>>, <<UPPER_A>>}, windir : {<<UPPER_A>>},
     app_folder : {<<UPPER_B>>}]

InitEnviron ==
    /\ InitLinux({CHOOSE e \in Envs(ProbeAnalyses, PlainFdSets) : TRUE}, {AbiLatest})
    /\ InitQuoteVars
    /\ environ \in CallerEnvirons(MaxEnv)
    /\ pairs = <<>>
    /\ block = NoBlock
    /\ decoded = <<>>
    /\ ePc = "start"
    /\ wenv \in WinEnvironEnvs
    /\ wPc = "start"
    /\ wRet = "none"
    /\ created = 0
    /\ wchild = [stdin |-> NoWinFd, stdout |-> NoWinFd, stderr |-> NoWinFd,
                 others |-> [fd \in OtherFds |-> NoWinFd]]
    /\ mutable = [terminated |-> FALSE, exit_code |-> NoCode]
    /\ owners = [o \in 0..MaxClones |-> "none"]
    /\ handles = NoHandles
    /\ wproc = NoWinProc
    /\ wlast = NoCall
    /\ wsteps = <<>>

NextEnviron ==
    \/ WindowsLaunchChild
    \/ ProgramReadsEnvironment

\* The environment of a Windows launch, from the caller's map to what the
\* started program reads.
SpecEnviron == InitEnviron /\ [][NextEnviron]_vars

\* The Windows launch, up to the WindowsChild it returns.
SpecWinLaunch == InitWinLaunch /\ [][NextWinLaunch]_vars

\* Launches that succeed: standard input and output are pipes or absent,
\* every other descriptor is a pipe of either direction or absent.
WinChildEnvs ==
    [cmd : {TRUE}, cwd : {TRUE},
     fds : {src \in [WinFdNumbers -> FdMode] :
              /\ src[0] \in {"ToChild", "Null"}
              /\ src[1] = "FromChild"
              /\ src[2] = "Null"
              /\ \A fd \in OtherFds : src[fd] # "KeepInChild"},
     fails : {"none"}, flip : {FALSE}, system_root : {<<UPPER_A>>},
     windir : {<<UPPER_A>>}, app_folder : {<<UPPER_B>>}]

InitWinChild ==
    /\ InitLinux({CHOOSE e \in Envs(ProbeAnalyses, PlainFdSets) : TRUE}, {AbiLatest})
    /\ InitQuoteVars
    /\ InitEnvVars
    /\ wenv \in WinChildEnvs
    /\ wPc = "start"
    /\ wRet = "none"
    /\ created = 0
    /\ wchild = [stdin |-> NoWinFd, stdout |-> NoWinFd, stderr |-> NoWinFd,
                 others |-> [fd \in OtherFds |-> NoWinFd]]
    /\ mutable = [terminated |-> FALSE, exit_code |-> NoCode]
    /\ owners = [o \in 0..MaxClones |-> "none"]
    /\ handles = NoHandles
    /\ wproc = NoWinProc
    /\ wlast = NoCall
    /\ wsteps = <<>>

NextWinChild ==
    \/ WindowsLaunchChild
    \/ WindowsChildState
    \/ WindowsProcessExits
    \/ \E o \in 0..MaxClones : WindowsTerminate(o)
    \/ \E o \in 0..MaxClones : WindowsExitStatus(o)
    \/ \E o \in 0..MaxClones : WindowsDrop(o)
    \/ \E fd \in WinFdNumbers : WindowsTakeStreamFromChild(fd)
    \/ \E fd \in WinFdNumbers : WindowsTakeStreamToChild(fd)

\* A Windows child, the clones of its state, and every call on them.
SpecWinChild == InitWinChild /\ [][NextWinChild]_vars

\* The launch and the confined program, on kernels of every Landlock ABI.
SpecJail == InitJail /\ [][NextJail]_vars

\* A launched child and the threads that call terminate() and
\* exit_status() on it at the same time.
NextSupervisor ==
    \/ SandboxChildLaunch
    \/ ChildAfterFork
    \/ ChildChdir
    \/ ChildRestrict
    \/ ChildCloseFds
    \/ ChildExec
    \/ ChildProgramExit
    \/ ChildDiesOfSignal
    \/ \E t \in Threads : ThreadTerminate(t)
    \/ \E t \in Threads : ThreadExitStatus(t)
    \/ \E t \in Threads : ThreadLock(t)
    \/ \E t \in Threads : ThreadKill(t)
    \/ \E t \in Threads : ThreadExitCode(t)

InitSupervisor ==
    InitWith({CHOOSE e \in Envs(ProbeAnalyses, PlainFdSets) :
                  launch_error(e, TRUE, TRUE, TRUE) = NoResult})

SpecSupervisor == InitSupervisor /\ [][NextSupervisor]_vars

\* The same, with a scheduler that lets every thread run: a thread that
\* can take its mutex, or that holds its guards, goes on.
SpecSupervisorFair ==
    /\ SpecSupervisor
    /\ \A t \in Threads :
          /\ WF_vars(ThreadLock(t))
          /\ WF_vars(ThreadKill(t))
          /\ WF_vars(ThreadExitCode(t))

\* Any packet, written to a writer whose n-th write may fail.
IdBytes == {0, 255}
PayloadBytes == {0, 1}

InitEvent ==
    /\ InitLinuxVars({CHOOSE e \in Envs(ProbeAnalyses, PlainFdSets) : TRUE}, {AbiLatest})
    /\ InitQuoteVars
    /\ InitWindowsVars
    /\ InitSupervisorVars
    /\ evRet = "none"
    /\ \E a, b, c \in IdBytes, size \in 0..(MaxLen + 1), fail_at \in 0..5 :
         /\ \E payload \in SeqsUpTo(PayloadBytes, MaxLen) :
              packet = [header |-> [packet_id |-> [i \in 1..8 |-> a],
                                    cmd_packet_id |-> [i \in 1..8 |-> b],
                                    event_id |-> [i \in 1..12 |-> c],
                                    size |-> size],
                        payload |-> payload]
         /\ writer = [NewWriter EXCEPT !.fail_at = fail_at]

NextEvent == EventWrite

SpecEvent == InitEvent /\ [][NextEvent]_vars

\* The file-read test: the test handler against a program that is refused
\* the file it opens after it wrote '1'.
NextFileRead ==
    \/ SandboxChildLaunch
    \/ ChildAfterFork
    \/ ChildChdir
    \/ ChildRestrict
    \/ ChildCloseFds
    \/ ChildExec
    \/ ChildDiesOfSignal
    \/ NoopRead
    \/ FileReadWrite
    \/ FileReadOpen
    \/ NoopExit
    \/ TestHandlerStart
    \/ TestHandlerTake
    \/ TestHandlerWrite
    \/ TestHandlerRead
    \/ TestHandlerExitStatus
    \/ TestHandlerTerminate
    \/ TestHandlerReturns
    \/ ChildExitCode

\* A read(2) that can return does return.
SpecFileRead == InitNoop /\ [][NextFileRead]_vars /\ WF_vars(TestHandlerRead)

\* ================================================================ claims
ChildExitedCleanly == proc.how = "exit" /\ proc.code = ExitClean
ChildEndedAbnormally == proc.how = "signal" \/ (proc.how = "exit" /\ proc.code # ExitClean)
HandlerHasReturned == pc = "returned" /\ handlerRet # "none"

\* C1: once the handler has returned (Ok or Err), sandbox_child does not
\* return while the child process it forked is still running.
C1_NoReturnWhileChildRuns == HandlerHasReturned => proc.st # "running"

\* C2: in the forked child chdir, restrict_self, the close sweep and exec
\* happen in that order and once each: confinement is committed after the
\* chdir and before the sweep, the sweep after the commit, exec only after
\* all three, nothing is undone, and a step that fails only ends the child
\* with one of the fixed statuses.
C2_ChildStepOrder ==
    [][/\ (dirChanged => dirChanged') /\ (confined => confined') /\ (swept => swept')
       /\ (dirChanged' /\ ~dirChanged => ~confined /\ ~swept)
       /\ (confined' /\ ~confined => dirChanged /\ ~swept)
       /\ (swept' /\ ~swept => confined)
       /\ (childPc' = "execd" => dirChanged' /\ confined' /\ swept')
       /\ (childPc \in {"execd", "exited"} => childPc' = childPc \/ childPc' = "exited")
       /\ (childPc \notin {"execd", "exited"} /\ childPc' = "exited" =>
              /\ proc' \in {ExitedWith(ExitSetup), ExitedWith(ExitJail), ExitedWith(ExitExec)}
              /\ <<dirChanged', confined', swept'>> = <<dirChanged, confined, swept>>)
      ]_vars

\* C2 witness: a child that reached exec, confined and swept.
C2_Witness == childPc = "execd" /\ dirChanged /\ confined /\ swept

\* C3: once the handler has returned (Ok or Err) and sandbox_child is
\* done, exit_status() on the supervisor state answers Some.
C3_ExitCodeKnownAfterHandler ==
    HandlerHasReturned => LinuxChildState_exit_code(exit_code, proc).ret # NoCode

\* C4: for a descriptor configured ToChild no take_stream_from_child ever
\* hands out a reader, take_stream_to_child hands out the writer on its
\* first call and never again; the same with the roles swapped for FromChild.
C4_TakeOncePerDirection ==
    \A fd \in Fds :
        /\ env.fds[fd] = "ToChild" =>
              taken[fd].readers = 0 /\ taken[fd].writers <= 1 /\ taken[fd].first_to # "None"
        /\ env.fds[fd] = "FromChild" =>
              taken[fd].writers = 0 /\ taken[fd].readers <= 1 /\ taken[fd].first_from # "None"

\* C5: the value sandbox_child returns after the handler ran: the handler's
\* error when the handler failed and the child exited cleanly, the child's
\* error when the handler succeeded and the child ended abnormally, and
\* Ok(code) only when the handler succeeded and the child exited cleanly.
C5_ResultComposition ==
    HandlerHasReturned =>
        /\ (handlerRet = "Err" /\ ChildExitedCleanly =>
                result.kind # "Ok" /\ result.origin = "handler")
        /\ (handlerRet = "Ok" /\ ChildEndedAbnormally =>
                result.kind # "Ok" /\ result.origin = "child")
        /\ (result.kind = "Ok" =>
                handlerRet = "Ok" /\ ChildExitedCleanly /\ result.code = proc.code)

\* C5 witness: the handler failed, the child exited 0, the handler's error
\* is what came back.
C5_Witness ==
    /\ HandlerHasReturned /\ handlerRet = "Err" /\ ChildExitedCleanly
    /\ result = Err("Io", "handler")

\* C6: a terminate() made while the child is running returns Ok and leaves
\* the exit code cached, so that every later exit_status() is Some.
C6_TerminateReapsAndCaches ==
    \A i \in DOMAIN termRets :
        termRets[i].before = "running" => termRets[i].ok /\ exit_code # NoCode

\* C7: of two terminate() calls on one child only one sends a SIGKILL, and
\* the second returns without error the exit code the first returned.
C7_TerminateIdempotent ==
    Len(termRets) >= 2 =>
        /\ termRets[1].sent + termRets[2].sent <= 1
        /\ termRets[2].ok
        /\ termRets[2].code = termRets[1].code

\* C8: exit_status() answers Some(code) only when the code was already
\* cached or its own non-blocking wait reaped a child that had exited with
\* that code; for a child that is still running it answers None.
C8_ExitStatusOnlyAfterReap ==
    esLast.called =>
        /\ (esLast.ret # NoCode =>
               \/ esLast.cached
               \/ /\ esLast.before = ExitedWith(esLast.ret)
                  /\ esLast.after = Reaped(esLast.before))
        /\ (esLast.before.st = "running" => esLast.ret = NoCode /\ esLast.after = esLast.before)

\* C8 witness: an exit_status() whose own wait reaped the child.
C8_Witness ==
    esLast.called /\ ~esLast.cached /\ esLast.ret # NoCode /\ esLast.after.st = "reaped"

\* C9: when the executable does not exist (PATH lookup fails, or the file
\* is gone when the resolver looks), sandbox_child returns Io or JailSetup,
\* no process was forked and the handler was never entered.
C9_MissingExecutableNeverSpawns ==
    (pc # "start" /\ (~env.cmd_found \/ ~env.exe_present)) =>
        /\ pc = "returned"
        /\ result \in {Err("Io", "launch"), Err("JailSetup", "launch")}
        /\ ~forked /\ ~handlerInvoked /\ proc = NoProc /\ childPc = "none"

\* C9 witness: PATH lookup found the command, the file is not on disk, and
\* the launch came back with JailSetup.
C9_Witness ==
    /\ pc = "returned" /\ env.cmd_found /\ ~env.exe_present
    /\ result = Err("JailSetup", "launch") /\ ~forked

\* What dependency resolution reports for the launch at hand.
ReportedDependencies == find_bin_dependencies(ExecPath, env.exe_present, env.analysis)
ResolvedIndexes ==
    {i \in DOMAIN ReportedDependencies : ReportedDependencies[i].realpath # NoPath}
RequiredUnresolved ==
    \E i \in DOMAIN ReportedDependencies :
        ReportedDependencies[i].required /\ ReportedDependencies[i].realpath = NoPath

\* C10: a reported dependency that is required and unresolved makes the
\* launch return JailSetup with no fork and no exec; otherwise unresolved
\* optional dependencies are dropped and the read allow-list holds exactly
\* the resolved paths of the others, one entry each.
C10_AllowListIsResolvedDependencies ==
    (pc # "start" /\ env.cmd_found) =>
        /\ (RequiredUnresolved =>
                /\ result = Err("JailSetup", "launch")
                /\ ~forked /\ proc = NoProc /\ childPc = "none")
        /\ (forked =>
                /\ ~RequiredUnresolved
                /\ Range(allowList) = {ReportedDependencies[i].realpath : i \in ResolvedIndexes}
                /\ Len(allowList) = Cardinality(ResolvedIndexes))

\* C10 witness: a launch that forked although an optional library was
\* unresolved, the library's path missing from the allow-list.
C10_Witness ==
    /\ forked
    /\ \E i \in DOMAIN ReportedDependencies :
          /\ ~ReportedDependencies[i].required
          /\ ReportedDependencies[i].realpath = NoPath
          /\ ReportedDependencies[i].path \notin Range(allowList)
    /\ Len(allowList) < Len(ReportedDependencies)

\* --------------------------------------------- descriptors across the fork
LaunchFailed == pc = "returned" /\ result.origin = "launch"

\* C11: when launch_child fails in the parent before the spawn, no process
\* was forked and every descriptor the attempt opened (ruleset, pipe ends)
\* is closed again: the host's descriptor table is the one it had.
C11_FailedLaunchLeavesNoTrace ==
    LaunchFailed =>
        /\ ~forked
        /\ proc = NoProc
        /\ childFds = NoTable
        /\ parentFds = HostTable(env.open)

\* A launch that failed after the ruleset and the pipes had been created.
C11_Witness ==
    /\ LaunchFailed
    /\ env.cmd_found
    /\ result.kind = "Io"
    /\ Len(fd_set(env)) > 1

\* The end of pipe p that the child is meant to hold.
child_end(e, p) == IF fd_set(e)[p].direction = "ToChild" THEN "read" ELSE "write"
parent_end(e, p) == IF fd_set(e)[p].direction = "ToChild" THEN "write" ELSE "read"
ChildSide(e, d) == d.kind = "pipe" /\ d.end = child_end(e, d.pipe)
ParentSide(e, d) == d.kind = "pipe" /\ d.end = parent_end(e, d.pipe)

AtExec == proc.st = "running" /\ childPc \in {"fds_closed", "execd"}

\* C12: when the child calls exec, every open descriptor number of the
\* child is a ToChild/FromChild target, a KeepInChild descriptor or the
\* ruleset descriptor; a Null descriptor is not open; no descriptor refers
\* to a parent-side pipe end, and a pipe end is open only on a target.
C12_OnlyKeptDescriptorsAtExec ==
    AtExec =>
        /\ \A n \in Descs :
              IsOpen(childFds, n) => n \in keep_fds(env.fds) \cup {ruleset_fd(env)}
        /\ \A fd \in Fds : env.fds[fd] = "Null" => ~IsOpen(childFds, fd)
        /\ \A n \in Descs :
              childFds[n].kind = "pipe" =>
                  /\ ChildSide(env, childFds[n])
                  /\ n \in Fds /\ env.fds[n] \in StreamDirection

\* The sweep closed a Null descriptor the host had open and the ruleset,
\* and left a pipe target open.
C12_Witness ==
    /\ childPc = "execd"
    /\ \E fd \in Fds : env.fds[fd] = "Null" /\ fd \in env.open
    /\ \E fd \in Fds : env.fds[fd] \in StreamDirection /\ IsOpen(childFds, fd)

DupDone ==
    /\ proc.st = "running"
    /\ childPc \in {"fds_installed", "dir_changed", "restricted", "fds_closed", "execd"}

\* C13: for every FdSet, after the child's dup step and up to exec, the
\* target of each ToChild entry is open in the child on the read end of
\* the pipe whose write end the parent keeps, and the target of each
\* FromChild entry on the write end of the pipe whose read end the parent
\* keeps.
C13_TargetsHoldTheirPipe ==
    DupDone =>
        \A p \in DOMAIN fd_set(env) :
            /\ childFds[fd_set(env)[p].dup_to] = PipeDesc(p, child_end(env, p))
            /\ parentFds[fd_set(env)[p].parent_fd] = PipeDesc(p, parent_end(env, p))

\* C14: when launch_child has returned and the handler is about to run,
\* the host holds exactly its own end of every pipe, once, no child-side
\* end, and the ruleset descriptor is closed again.
C14_ParentHoldsOnlyItsEnds ==
    pc = "handle" =>
        /\ \A n \in Descs : parentFds[n].kind = "pipe" => ParentSide(env, parentFds[n])
        /\ \A p \in DOMAIN fd_set(env) :
              {n \in Descs : parentFds[n].kind = "pipe" /\ parentFds[n].pipe = p}
                  = {fd_set(env)[p].parent_fd}
        /\ \A n \in Descs : parentFds[n].kind # "pipe" => parentFds[n] = HostTable(env.open)[n]

\* The handler is entered with one stream in each direction.
C14_Witness ==
    /\ pc = "handle"
    /\ \E p, q \in DOMAIN fd_set(env) :
          fd_set(env)[p].direction = "ToChild" /\ fd_set(env)[q].direction = "FromChild"

\* The status the child's pre-exec path gives to a failure at a position.
failure_status(at) ==
    CASE at \in {"forked", "fds_installed"} -> ExitSetup
      [] at = "dir_changed" -> ExitJail
      [] at = "fds_closed" -> ExitExec
      [] OTHER -> NoCode

\* C15: a failure of the child between fork and exec ends the child with
\* the status of its class (253 for dup2 and chdir, 255 for the commit of
\* the confinement, 254 for exec) and with no other status, and nothing of
\* it reaches the parent as data: launch_child's result stands.
C15_PreExecFailureStatus ==
    [][(childPc # "exited" /\ childPc # "execd" /\ childPc' = "exited") =>
          /\ proc'.how = "exit"
          /\ proc'.code = failure_status(childPc)
          /\ proc'.code \in {ExitSetup, ExitExec, ExitJail}
          /\ UNCHANGED <<pc, result, handlerRet, fds, parentFds>>]_vars

\* The child ended on a failed commit while the parent is in the handler.
C15_Witness ==
    /\ childPc = "exited"
    /\ proc = ExitedWith(ExitJail)
    /\ pc = "handle"
    /\ ~confined

\* ------------------------------------------------------- the confinement
\* C16: once the confinement is committed, every open of a path outside
\* the read allow-list is denied, and an open that is granted asks for a
\* read right (read, list, execute), never for the write right.
C16_OnlyAllowListIsReadable ==
    (confined /\ opened # NoOpen) =>
        /\ opened.path \notin Range(allowList) => ~opened.granted
        /\ opened.granted => opened.right \in {"ReadFile", "ReadDir", "Execute"}

\* On the oldest Landlock kernel the program read a library of its
\* allow-list.
C16_Witness ==
    /\ confined
    /\ kernel = AbiMin
    /\ opened.granted
    /\ opened.right = "ReadFile"
    /\ opened.path \in Range(allowList)
    /\ Len(allowList) > 1

\* C17: a confined child never establishes a TCP connection: the server
\* of the host records no accepted connection, on every kernel on which
\* the launch succeeds.
C17_NoTcpConnection == accepted = 0

\* ----------------------------------------------------- the noop scenario
AllMilestones ==
    state.handle_started /\ state.sent_init /\ state.read_start /\ state.read_end

\* C18: in the noop scenario (0 = ToChild, 1 = FromChild, the program
\* reads a byte, writes '1' and '2' and exits 0, the handler writes '0',
\* reads '1' and '2' and calls terminate() only when exit_status() is
\* None), sandbox_child returns Ok(0) with the four milestones reached,
\* however the exit of the child interleaves with the last calls of the
\* handler.
C18_NoopReturnsOkZero ==
    (pc = "returned" /\ progPc # "read0") =>
        /\ result = Ok(ExitClean)
        /\ AllMilestones

\* ------------------------------------------------ Windows command line
\* C19: for every command and every argument list without an interior
\* NUL, the program that parses the command line quote_arguments emitted
\* with the CommandLineToArgv rule gets back the command as argv[0],
\* followed by exactly the original arguments in their order.
C19_QuotingRoundTrips ==
    qPc = "parsed" => argv = <<cmd>> \o args

\* The arguments after the command do come back whenever the command did.
ArgumentsRoundTrip ==
    (qPc = "parsed" /\ argv[1] = cmd) => argv = <<cmd>> \o args

\* The piece of the command line emitted for one argument.
Wrapped(piece) ==
    Len(piece) >= 2 /\ piece[1] = QUOTE /\ piece[Len(piece)] = QUOTE

NeedsQuotes(arg) ==
    arg = <<>> \/ \E i \in 1..Len(arg) : arg[i] \in {SPACE, TAB, LF, VT, QUOTE}

PieceOk(arg, piece) ==
    /\ NeedsQuotes(arg) <=> Wrapped(piece)
    /\ ~NeedsQuotes(arg) => piece = arg

\* line is the pieces of list[i..], each as PieceOk has it, with one space
\* between two pieces.
RECURSIVE PiecesOk(_, _, _)
PiecesOk(line, list, i) ==
    IF i = Len(list) THEN PieceOk(list[i], line)
    ELSE \E k \in 1..Len(line) :
           /\ line[k] = SPACE
           /\ PieceOk(list[i], SubSeq(line, 1, k - 1))
           /\ PiecesOk(SubSeq(line, k + 1, Len(line)), list, i + 1)

OnlyBackslashes(arg) == arg # <<>> /\ \A i \in 1..Len(arg) : arg[i] = BACKSLASH

\* C20: quote_arguments puts an argument between double quotes if and only
\* if the argument is empty or holds a space, a tab, a newline, a vertical
\* tab or a double quote; every other argument, one made of backslashes
\* only included, is emitted as it is.
C20_QuotedIffRequired ==
    (qPc # "start" /\ cmdline.ok) =>
        /\ cmdline.ret[Len(cmdline.ret)] = NUL
        /\ PiecesOk(DropLast(cmdline.ret, 1), <<cmd>> \o args, 1)

C20_Witness ==
    /\ qPc = "quoted"
    /\ OnlyBackslashes(cmd)
    /\ \E i \in 1..Len(args) : \E j \in 1..Len(args[i]) : args[i][j] = VT

\* End of input, where a code unit is expected.
END == 0 - 1

\* seq as its runs of backslashes: one entry per code unit that is no
\* backslash, and one for the end, each with the number of backslashes
\* that come right before it.
RECURSIVE RunList(_, _, _)
RunList(seq, i, n) ==
    IF i > Len(seq) THEN <<[n |-> n, next |-> END]>>
    ELSE IF seq[i] = BACKSLASH THEN RunList(seq, i + 1, n + 1)
    ELSE <<[n |-> n, next |-> seq[i]]>> \o RunList(seq, i + 1, 0)

\* The run a run of n backslashes of the argument becomes between quotes.
Escaped(r) ==
    [n |-> IF r.next = QUOTE THEN 2 * r.n + 1
           ELSE IF r.next = END THEN 2 * r.n ELSE r.n,
     next |-> r.next]

EscapedPiece(arg, piece) ==
    IF NeedsQuotes(arg)
    THEN /\ Wrapped(piece)
         /\ LET runs == RunList(arg, 1, 0)
            IN RunList(SubSeq(piece, 2, Len(piece) - 1), 1, 0)
                 = [k \in 1..Len(runs) |-> Escaped(runs[k])]
    ELSE piece = arg

RECURSIVE EscapedPieces(_, _, _)
EscapedPieces(line, list, i) ==
    IF i = Len(list) THEN EscapedPiece(list[i], line)
    ELSE \E k \in 1..Len(line) :
           /\ line[k] = SPACE
           /\ EscapedPiece(list[i], SubSeq(line, 1, k - 1))
           /\ EscapedPieces(SubSeq(line, k + 1, Len(line)), list, i + 1)

\* C21: between the quotes of a quoted argument a run of n backslashes
\* comes out as 2n+1 backslashes when a double quote follows it, as n
\* backslashes when any other code unit follows it, and as 2n backslashes
\* at the end of the argument, before the closing quote.
C21_BackslashRunsEscaped ==
    (qPc # "start" /\ cmdline.ok) =>
        EscapedPieces(DropLast(cmdline.ret, 1), <<cmd>> \o args, 1)

\* A quoted command with a backslash before a quote, one before another
\* code unit, or one at its end.
C21_Witness ==
    /\ qPc = "quoted"
    /\ \E i \in 1..(Len(cmd) - 1) : cmd[i] = BACKSLASH /\ cmd[i + 1] = QUOTE
    /\ cmd[Len(cmd)] = BACKSLASH

\* ---------------------------------------------- Windows environment block
\* Keys compared without regard to case.
SameKey(a, b) == to_uppercase(a) = to_uppercase(b)
KeyLeq(a, b) == ~Less(to_uppercase(b), to_uppercase(a))

\* The entries K=V NUL of list in the order f.
RECURSIVE Entries(_, _, _)
Entries(list, f, i) ==
    IF i > Len(list) THEN <<>>
    ELSE list[f[i]][1] \o <<EQUALS>> \o list[f[i]][2] \o <<NUL>> \o Entries(list, f, i + 1)

HasNul(list) ==
    \E i \in 1..Len(list) : \E j \in 1..2 : \E k \in 1..Len(list[i][j]) : list[i][j][k] = NUL

\* The block is the entries, sorted by key without regard to case, each
\* as K=V and one NUL, and one more NUL; two NULs for no entry at all.
EnvBlockLayout ==
    ePc \in {"encoded", "read"} =>
        /\ pairs = <<>> => block.ret = <<NUL, NUL>>
        /\ pairs # <<>> =>
             \E f \in Permutations(1..Len(pairs)) :
               /\ \A i \in 1..(Len(pairs) - 1) : KeyLeq(pairs[f[i]][1], pairs[f[i + 1]][1])
               /\ block.ret = Append(Entries(pairs, f, 1), NUL)

\* Only a NUL makes encode_env_strings fail: a key that begins with '='
\* does not.
EnvBlockAccepts == ePc # "start" => (block.ok <=> ~HasNul(pairs))

\* What the program reads is the pairs that were given.
EnvBlockDecodes ==
    ePc = "read" =>
        /\ Len(decoded) = Len(pairs)
        /\ \E f \in Permutations(1..Len(pairs)) :
             \A i \in 1..Len(pairs) : decoded[i] = pairs[f[i]]

\* C22: encode_env_strings emits the entries sorted by key without regard
\* to case, each as K=V and one NUL, the block ended by one more NUL; an
\* empty environment gives two NULs; keys that begin with '=' are
\* accepted; and decoding the block gives exactly the pairs that went in.
C22_EnvBlockRoundTrips ==
    EnvBlockLayout /\ EnvBlockAccepts /\ EnvBlockDecodes

\* ---- Windows: the FdSet of a launch
\* The FdSet asks for what Windows cannot give.
BadFdSet(src) ==
    \/ src[0] = "FromChild"
    \/ src[1] = "ToChild"
    \/ src[2] = "ToChild"
    \/ \E fd \in OtherFds : src[fd] = "KeepInChild"

\* A launched child holds, for a descriptor other than 0, 1 and 2, a pipe
\* of the direction the FdSet gave it, and nothing for Null.
OthersAsAsked ==
    \A fd \in OtherFds :
      /\ wenv.fds[fd] \in {"ToChild", "FromChild", "Null"}
      /\ wenv.fds[fd] = "Null" => wchild.others[fd] = NoWinFd
      /\ wenv.fds[fd] # "Null" => wchild.others[fd] = WinFd_new(wenv.fds[fd])

\* C23: on Windows a launch whose FdSet marks descriptor 0 FromChild,
\* descriptor 1 or 2 ToChild, or another descriptor KeepInChild fails
\* before any process is created, with JailSetup whenever the path of the
\* executable resolves, and with the Io error of that path otherwise; a
\* descriptor other than 0, 1 and 2 is accepted only with ToChild,
\* FromChild or Null.
C23_BadFdSetNeverLaunches ==
    /\ (wPc # "start" /\ BadFdSet(wenv.fds)) =>
          /\ created = 0
          /\ wPc = "failed"
          /\ wRet = IF wenv.cmd THEN "JailSetup" ELSE "Io"
    /\ wPc = "launched" => OthersAsAsked

\* C23 as stated: the launch fails with JailSetup whatever else is wrong
\* with it.
C23_BadFdSetIsJailSetup ==
    /\ (wPc # "start" /\ BadFdSet(wenv.fds)) => (created = 0 /\ wRet = "JailSetup")
    /\ wPc = "launched" => OthersAsAsked

\* A launch on a sound host that fails for one thing alone: a descriptor
\* other than 0, 1 and 2 that is marked KeepInChild.
C23_Witness ==
    /\ wPc = "failed"
    /\ wRet = "JailSetup"
    /\ created = 0
    /\ wenv.cmd /\ wenv.cwd /\ wenv.fails = "none"
    /\ \E fd \in OtherFds : wenv.fds[fd] = "KeepInChild"
    /\ wenv.fds[0] # "FromChild" /\ wenv.fds[1] # "ToChild" /\ wenv.fds[2] # "ToChild"

\* ---- Windows: the environment of the child
\* The variables the child is to find, whatever the caller asked for.
ForcedVariables ==
    {<<SystemRoot, wenv.system_root>>,
     <<WINDIR, wenv.windir>>,
     <<Path, wenv.system_root \o SEMICOLON \o wenv.system_root \o SYSTEM32>>,
     <<LOCALAPPDATA, wenv.app_folder>>,
     <<TEMP, wenv.app_folder \o TEMP_FOLDER>>,
     <<TMP, wenv.app_folder \o TEMP_FOLDER>>}

\* The child was started and has read its environment.
ChildReadEnvironment == wRet = "Ok" /\ ePc = "read"

\* C24: the environment the Windows child reads carries SystemRoot, WINDIR,
\* the minimal Path and LOCALAPPDATA, TEMP and TMP of the AppContainer
\* folder, and every entry of such a name, in whatever case the caller
\* spelled it, has the forced value.
C24_ForcedVariablesOverride ==
    ChildReadEnvironment =>
      \A forced \in ForcedVariables :
        /\ \E i \in 1..Len(decoded) : SameKey(decoded[i][1], forced[1])
        /\ \A i \in 1..Len(decoded) :
             SameKey(decoded[i][1], forced[1]) => decoded[i][2] = forced[2]

\* The keys of the caller's environment differ even when case is ignored.
CallerKeysUnique ==
    \A k \in DOMAIN environ : \A o \in DOMAIN environ : SameKey(k, o) => k = o

\* C25: when the keys of the caller's environment are unique without
\* regard to case, the block handed to CreateProcessAsUserW holds no two
\* entries whose keys are equal without regard to case.
C25_BlockKeysUnique ==
    (created > 0 /\ block.ok /\ CallerKeysUnique) =>
      LET entries == environment_strings(block.ret, 1)
      IN \A i \in 1..Len(entries) : \A j \in 1..Len(entries) :
           SameKey(entries[i][1], entries[j][1]) => i = j

\* ---- Windows: the handles of the child
\* The WindowsChild and every clone of its state are gone.
AllDropped == wPc = "dropped" /\ \A o \in DOMAIN owners : owners[o] # "live"

\* C26: the process, thread and job handles of a Windows child are never
\* closed twice, no call is made with one of them after it was closed, and
\* once the WindowsChild and every clone of its state are dropped each was
\* closed exactly once.
C26_HandlesClosedOnce ==
    \A h \in {"process", "thread", "job"} :
      /\ handles[h].closes <= 1
      /\ ~handles[h].stale
      /\ AllDropped => handles[h].closes = 1

\* ---- the child and its Child object
\* handler.handle took the Child by value: when it has returned, the Child
\* is dropped.
ChildDropped == handlerRet # "none"

\* C27: a child process does not outlive its Child object: once the Child
\* is dropped the process is no longer at work.
C27_ChildNeverOutlivesChild == ChildDropped => proc.st # "running"

\* The same for the WindowsChild.
WindowsChildNeverOutlivesChild == wPc = "dropped" => wproc.st = "exited"

\* ---- takes of the wrong direction
\* The stream of descriptor fd was not handed out so far.
NotHandedOut(fd) ==
    \/ env.fds[fd] = "ToChild" /\ taken[fd].writers = 0
    \/ env.fds[fd] = "FromChild" /\ taken[fd].readers = 0

\* C28: a take of the wrong direction answers None and leaves the stream
\* map as it is: while the handler runs, a stream that was not handed out
\* is still in the map with its direction, so that the take of the right
\* direction gets it.
C28_MismatchedTakeKeepsStream ==
    InHandler =>
      \A fd \in Fds : NotHandedOut(fd) => fd \in DOMAIN fds /\ fds[fd] = env.fds[fd]

\* The same for the WindowsChild: a take that answers None for a pipe of
\* the other direction leaves the child as it is.
WindowsMismatchedTakeKeepsStream ==
    [][\A fd \in WinFdNumbers :
         (/\ WinFdOf(wchild, fd).kind = "Pipe"
          /\ wlast' # wlast
          /\ wlast'.arg = fd
          /\ \/ wlast'.op = "take_stream_from_child"
                   /\ WinFdOf(wchild, fd).direction = "ToChild"
             \/ wlast'.op = "take_stream_to_child"
                   /\ WinFdOf(wchild, fd).direction = "FromChild")
         => wlast'.ret = "None" /\ wchild' = wchild]_vars

\* ---- the ruleset descriptor in the child
\* The child is at work and has not called restrict_self so far.
BeforeRestrict == ChildAlive /\ childPc \in {"forked", "fds_installed", "dir_changed"}

\* C29: in the child nothing that is done before restrict_self closes or
\* replaces the descriptor of the ruleset: up to that call its number
\* still refers to the ruleset, for any FdSet.
C29_RulesetIntactBeforeRestrict ==
    BeforeRestrict => childFds[ruleset_fd(env)] = RulesetDesc

\* ---- the exit of the child, observed
\* C30: the exit of the child, normal or by a signal, is cached when the
\* non-blocking wait of exit_status() or terminate() observes it: the
\* child is never reaped, while the handler runs, with no exit code in the
\* cache, for then every later exit_status() answers None.
C30_ObservedExitIsCached ==
    (pc = "handle" /\ proc.st = "reaped") =>
      /\ exit_code # NoCode
      /\ LinuxChildState_exit_code(exit_code, proc).ret # NoCode

C32_NoDoubleKill == killsSent <= 1 /\ lateKills = 0

C34_NeverRunsOutsideJob ==
    /\ \A i \in DOMAIN wsteps :
          /\ wsteps[i].call = "CreateProcessAsUserW" /\ wsteps[i].ok
                => wsteps[i].proc.st = "suspended"
          /\ wsteps[i].proc.st = "running"
                => /\ wsteps[i].proc.job
                   /\ wsteps[i].job.limits = {"KILL_ON_JOB_CLOSE", "ACTIVE_PROCESS"}
                   /\ wsteps[i].job.active_process_limit = 1
    /\ wproc.st = "running" => wproc.job

\* A launch that went through its five calls and left the child running.
C34_Witness ==
    /\ wPc = "launched" /\ wproc.st = "running"
    /\ Len(wsteps) = 5
    /\ wsteps[1].proc.st = "suspended" /\ ~wsteps[1].proc.job
    /\ wsteps[5].call = "ResumeThread"

\* ---------------------------------------------------------------- C35
\* C35: on Windows, once launch_child has returned the WindowsChild, the
\* host holds no child-side handle of any pipe, whether or not the handler
\* has taken the stream.
C35_ChildHandlesClosedAfterLaunch ==
    wPc = "launched" =>
        \A fd \in WinFdNumbers : ~WinFdOf(wchild, fd).child_handle

\* ---------------------------------------------------------------- C36
\* C36: the parent surface ForkedFd::parent_after_fork returns holds
\* exactly one mapping for every ToChild/FromChild entry of the FdSet,
\* with the logical descriptor and the direction of the entry, and none
\* for a Null or KeepInChild entry; so does the map the LinuxChild keeps.
C36_ParentSurfaceMatchesFdSet ==
    pc = "handle" =>
        /\ \A fd \in Fds :
              Cardinality({i \in DOMAIN fd_set(env) : fd_set(env)[i].dup_to = fd})
                  = IF env.fds[fd] \in StreamDirection THEN 1 ELSE 0
        /\ \A i \in DOMAIN fd_set(env) :
              fd_set(env)[i].direction = env.fds[fd_set(env)[i].dup_to]
        /\ DOMAIN fds = {fd \in Fds : env.fds[fd] \in StreamDirection}
        /\ \A fd \in DOMAIN fds : fds[fd] = env.fds[fd]

\* A launch with a stream entry and a Null or KeepInChild entry, the
\* stream entry not being the first of the Vec.
C36_Witness ==
    /\ pc = "handle"
    /\ \E fd, other \in Fds :
          /\ env.fds[fd] \in StreamDirection /\ fd \in DOMAIN fds
          /\ env.fds[other] \in {"Null", "KeepInChild"} /\ other \notin DOMAIN fds
          /\ env.order[1] = other

\* ---------------------------------------------------------------- C37
\* C37: EventWriter::write hands nothing to the writer and returns an error
\* when header.size differs from the payload length; otherwise a write
\* that returns Ok has emitted packet_id, cmd_packet_id, event_id, the
\* size as four big-endian octets and the payload, in this order, and has
\* flushed the writer.
C37_WriteChecksEmitsAndFlushes ==
    evRet # "none" =>
        /\ packet.header.size # Len(packet.payload) =>
              /\ evRet = "InvalidInput"
              /\ writer.buffered = <<>> /\ writer.written = <<>>
        /\ evRet = "Ok" =>
              /\ writer.written \o writer.buffered
                    = packet.header.packet_id \o packet.header.cmd_packet_id
                        \o packet.header.event_id
                        \o <<0, 0, 0, packet.header.size>> \o packet.payload
              /\ writer.buffered = <<>>
              /\ writer.flushes >= 1

\* ---------------------------------------------------------------- C38
\* C38: once an exit_status() has returned Some(c), every later
\* exit_status(), on the Child or on a clone of the supervisor state,
\* returns the same Some(c), whatever terminate() and exit_status() calls
\* of other threads come in between.
C38_ExitStatusIsStable ==
    \A i, j \in DOMAIN esRets :
        i < j /\ esRets[i] # NoCode => esRets[j] = esRets[i]

\* Two threads got Some from exit_status(), the first of them from the
\* waitpid that reaped the child, and a terminate() was made as well.
C38_Witness ==
    /\ Len(esRets) >= 2 /\ esRets[1] # NoCode
    /\ \A t \in Threads : thr[t].call = "exit_code" /\ thr[t].ret = "Some"
    /\ Len(termRets) >= 1

\* The same on Windows: an exit_code() made when a code is cached answers
\* that code.
WindowsExitStatusIsStable ==
    [][(mutable.exit_code # NoCode /\ wlast'.op = "exit_status" /\ wlast' # wlast)
          => wlast'.code = mutable.exit_code /\ mutable' = mutable]_vars

\* ---------------------------------------------------------------- C39
\* C39: concurrent exit_status() and terminate() calls on clones of one
\* supervisor state never deadlock: a thread that waits for a mutex holds
\* at most the killed mutex (the order is always killed, then exit_code),
\* and every call that was entered returns.
C39_CallsAlwaysReturn ==
    /\ [](\A t \in Threads : thr[t].pc = "lock" => held(t) \subseteq {"killed"})
    /\ \A t \in Threads : (thr[t].pc # "idle") ~> (thr[t].pc = "idle")

\* terminate() holds the killed mutex and waits for the exit_code mutex,
\* which an exit_status() of the other thread holds.
C39_Witness ==
    \E t, u \in Threads :
        /\ thr[t].call = "kill" /\ thr[t].pc = "lock" /\ locks.killed = t
        /\ thr[u].call = "exit_code" /\ thr[u].pc = "body" /\ locks.exit_code = u

\* ---------------------------------------------------------------- C40
\* C40: when a step of launch_restricted fails after the process was
\* created (creating the job, setting its limits, assigning the process),
\* the launch returns Err and leaves neither a suspended or running
\* child outside a job nor an open process, thread or job handle.
C40_FailedLaunchLeavesNothing ==
    (wPc = "failed" /\ created = 1) =>
        /\ wRet # "Ok"
        /\ wproc.st \notin {"suspended", "running"}
        /\ \A h \in {"process", "thread", "job"} : handles[h].st # "open"

====
